---- MODULE Spec2Model ----
(***************************************************************************)
(* Verification model of the scoring / aggregation core of                 *)
(* stock_ai_analyzer: the news tasks (news/tasks.py), the recommendation   *)
(* engine (analysis/ai_analyzer.py) and the entry-signal analyzer          *)
(* (analysis/entry_signal_analyzer.py).                                    *)
(*                                                                         *)
(* Python floats are IEEE-754 binary64 values.  They are modelled exactly: *)
(* a float is a sign, a 53-bit mantissa and an exponent, and every         *)
(* arithmetic operation computes the exact result and rounds it to         *)
(* nearest, ties to even.  Mantissas do not fit the model checker's        *)
(* integers, so they are kept as little-endian sequences of base-2^15      *)
(* limbs.  All magnitudes in the program are far from overflow and         *)
(* underflow, so infinities, NaN and subnormals are not modelled.          *)
(***************************************************************************)
EXTENDS Integers, Sequences, FiniteSets, TLC

-----------------------------------------------------------------------------
(* Arbitrary-size naturals: little-endian limb sequences, no leading zero  *)
(* limb, <<>> is zero.                                                     *)

LimbBits == 15
Base == 32768
MantBits == 53

RECURSIVE NatNorm(_)
NatNorm(a) ==
    IF a = <<>> THEN <<>>
    ELSE IF a[Len(a)] = 0 THEN NatNorm(SubSeq(a, 1, Len(a) - 1))
    ELSE a

RECURSIVE NatFromInt(_)
NatFromInt(n) ==
    IF n = 0 THEN <<>> ELSE <<n % Base>> \o NatFromInt(n \div Base)

RECURSIVE NatAddC(_, _, _)
NatAddC(a, b, c) ==
    IF a = <<>> /\ b = <<>> THEN (IF c = 0 THEN <<>> ELSE <<c>>)
    ELSE LET x == IF a = <<>> THEN 0 ELSE Head(a)
             y == IF b = <<>> THEN 0 ELSE Head(b)
             s == x + y + c
             ta == IF a = <<>> THEN <<>> ELSE Tail(a)
             tb == IF b = <<>> THEN <<>> ELSE Tail(b)
         IN <<s % Base>> \o NatAddC(ta, tb, s \div Base)

NatAdd(a, b) == NatAddC(a, b, 0)

\* a - b for a >= b, limb by limb with borrow
RECURSIVE NatSubB(_, _, _)
NatSubB(a, b, bw) ==
    IF a = <<>> THEN <<>>
    ELSE LET y == IF b = <<>> THEN 0 ELSE Head(b)
             d == Head(a) - y - bw
             tb == IF b = <<>> THEN <<>> ELSE Tail(b)
         IN IF d < 0 THEN <<d + Base>> \o NatSubB(Tail(a), tb, 1)
            ELSE <<d>> \o NatSubB(Tail(a), tb, 0)

NatSub(a, b) == NatNorm(NatSubB(a, b, 0))

\* -1, 0, 1 as a < b, a = b, a > b
RECURSIVE NatCmpFrom(_, _, _)
NatCmpFrom(a, b, i) ==
    IF i = 0 THEN 0
    ELSE IF a[i] < b[i] THEN -1
    ELSE IF a[i] > b[i] THEN 1
    ELSE NatCmpFrom(a, b, i - 1)

NatCmp(a, b) ==
    IF Len(a) < Len(b) THEN -1
    ELSE IF Len(a) > Len(b) THEN 1
    ELSE NatCmpFrom(a, b, Len(a))

\* a * c + carry for a small c (c <= Base)
RECURSIVE NatMulSmall(_, _, _)
NatMulSmall(a, c, carry) ==
    IF a = <<>> THEN NatFromInt(carry)
    ELSE LET p == Head(a) * c + carry
         IN <<p % Base>> \o NatMulSmall(Tail(a), c, p \div Base)

\* long division by a small c (0 < c <= Base), most significant limb first
RECURSIVE NatDivFrom(_, _, _, _)
NatDivFrom(a, c, i, r) ==
    IF i = 0 THEN [q |-> <<>>, r |-> r]
    ELSE LET cur == r * Base + a[i]
             rest == NatDivFrom(a, c, i - 1, cur % c)
         IN [q |-> rest.q \o <<cur \div c>>, r |-> rest.r]

\* the quotient without leading zero limbs
Quotient(res) == [q |-> NatNorm(res.q), r |-> res.r]

NatDivSmall(a, c) == Quotient(NatDivFrom(a, c, Len(a), 0))

RECURSIVE IntBitLen(_)
IntBitLen(n) == IF n = 0 THEN 0 ELSE 1 + IntBitLen(n \div 2)

NatBitLen(a) ==
    IF a = <<>> THEN 0 ELSE (Len(a) - 1) * LimbBits + IntBitLen(a[Len(a)])

Zeros(k) == [i \in 1..k |-> 0]

\* a * 2^k
NatShl(a, k) ==
    IF a = <<>> THEN <<>>
    ELSE Zeros(k \div LimbBits) \o NatMulSmall(a, 2 ^ (k % LimbBits), 0)

\* the quotient d of the upper limbs, low: a dropped lower limb was not zero
Shifted(d, low) == [q |-> d.q, sticky |-> (d.r # 0) \/ low]

\* a div 2^k, and whether any of the bits shifted out was set
NatShr(a, k) ==
    IF k \div LimbBits >= Len(a)
    THEN [q |-> <<>>, sticky |-> a # <<>>]
    ELSE Shifted(NatDivSmall(SubSeq(a, k \div LimbBits + 1, Len(a)),
                             2 ^ (k % LimbBits)),
                 \E i \in 1..(k \div LimbBits) : a[i] # 0)

NatOdd(a) == a # <<>> /\ a[1] % 2 = 1

-----------------------------------------------------------------------------
(* binary64 values: sgn * man * 2^exp with 2^52 <= man < 2^53, or zero.    *)

FZero == [sgn |-> 0, man |-> <<>>, exp |-> 0]

\* a carry out of the rounded mantissa q moves the exponent
Renormalized(s, q, e) ==
    IF NatBitLen(q) > MantBits
    THEN [sgn |-> s, man |-> NatShr(q, 1).q, exp |-> e + 1]
    ELSE [sgn |-> s, man |-> q, exp |-> e]

\* t.q is the mantissa with one more bit, q without it: round to nearest,
\* ties to even
RoundedUp(s, t, q, e) ==
    Renormalized(s,
                 IF NatOdd(t.q) /\ (t.sticky \/ NatOdd(q))
                 THEN NatAdd(q, <<1>>) ELSE q,
                 e)

RoundedOff(s, t, e) == RoundedUp(s, t, NatShr(t.q, 1).q, e)

\* the exact value mag * 2^e with a mag of len bits, rounded
RoundedTo(s, mag, e, len) ==
    IF len <= MantBits
    THEN [sgn |-> s, man |-> NatShl(mag, MantBits - len),
          exp |-> e - (MantBits - len)]
    ELSE RoundedOff(s, NatShr(mag, len - MantBits - 1), e + len - MantBits)

\* the exact value mag * 2^e, rounded to nearest, ties to even
FRound(s, mag, e) ==
    IF mag = <<>> THEN FZero ELSE RoundedTo(s, mag, e, NatBitLen(mag))

\* float(n) for a Python int n
FInt(n) ==
    FRound(IF n < 0 THEN -1 ELSE 1, NatFromInt(IF n < 0 THEN -n ELSE n), 0)

FNeg(x) == [x EXCEPT !.sgn = -x.sgn]
FAbs(x) == [x EXCEPT !.sgn = IF x.sgn = 0 THEN 0 ELSE 1]

\* comparison of magnitudes: -1, 0, 1
FCmpMag(x, y) ==
    IF x.sgn = 0 /\ y.sgn = 0 THEN 0
    ELSE IF x.sgn = 0 THEN -1
    ELSE IF y.sgn = 0 THEN 1
    ELSE IF x.exp < y.exp THEN -1
    ELSE IF x.exp > y.exp THEN 1
    ELSE NatCmp(x.man, y.man)

FCmp(x, y) ==
    IF x.sgn # y.sgn THEN (IF x.sgn < y.sgn THEN -1 ELSE 1)
    ELSE x.sgn * FCmpMag(x, y)

FLt(x, y) == FCmp(x, y) < 0
FGt(x, y) == FCmp(x, y) > 0
FLe(x, y) == FCmp(x, y) <= 0
FGe(x, y) == FCmp(x, y) >= 0
FMin(x, y) == IF FLt(y, x) THEN y ELSE x
FMax(x, y) == IF FGt(y, x) THEN y ELSE x

\* exponent gap beyond which the smaller operand cannot change the sum
AlignLimit == 56

\* the sum of bs * bm * 2^e and ss * sm * 2^e
FAddAligned(bs, bm, ss, sm, e) ==
    FRound(IF NatCmp(bm, sm) >= 0 THEN bs ELSE ss,
           IF bs = ss THEN NatAdd(bm, sm)
           ELSE IF NatCmp(bm, sm) >= 0 THEN NatSub(bm, sm)
           ELSE NatSub(sm, bm),
           e)

\* the sum for big.exp >= sml.exp
FAddOrdered(big, sml) ==
    IF big.exp - sml.exp > AlignLimit THEN big
    ELSE FAddAligned(big.sgn, NatShl(big.man, big.exp - sml.exp),
                     sml.sgn, sml.man, sml.exp)

FAdd(x, y) ==
    IF x.sgn = 0 THEN y
    ELSE IF y.sgn = 0 THEN x
    ELSE FAddOrdered(IF x.exp >= y.exp THEN x ELSE y,
                     IF x.exp >= y.exp THEN y ELSE x)

FSub(x, y) == FAdd(x, FNeg(y))

\* x * c for a Python int c with 0 < c <= Base
FMulInt(x, c) == FRound(x.sgn, NatMulSmall(x.man, c, 0), x.exp)

\* guard bits kept by the division before rounding
DivGuard == 16

\* the quotient d with the remainder as a sticky bit, rounded
FDivRounded(s, d, e) ==
    FRound(s, NatMulSmall(d.q, 2, IF d.r # 0 THEN 1 ELSE 0), e)

\* x / c for a Python int c with 0 < c < 2^14
FDivInt(x, c) ==
    IF x.sgn = 0 THEN FZero
    ELSE FDivRounded(x.sgn, NatDivSmall(NatShl(x.man, DivGuard), c),
                     x.exp - DivGuard - 1)

\* the float a decimal literal n/d denotes (n >= 0, 0 < d < 2^14)
FLit(n, d) == FDivInt(FInt(n), d)

\* a * b, limb by limb
RECURSIVE NatMul(_, _)
NatMul(a, b) ==
    IF a = <<>> \/ b = <<>> THEN <<>>
    ELSE NatAdd(NatNorm(NatMulSmall(a, Head(b), 0)),
                NatNorm(<<0>> \o NatMul(a, Tail(b))))

\* x * y
FMul(x, y) ==
    IF x.sgn = 0 \/ y.sgn = 0 THEN FZero
    ELSE FRound(x.sgn * y.sgn, NatMul(x.man, y.man), x.exp + y.exp)

\* the largest digit q in lo..hi with d * q <= r, by bisection
RECURSIVE NatDigit(_, _, _, _)
NatDigit(r, d, lo, hi) ==
    IF lo = hi THEN lo
    ELSE IF NatCmp(NatMulSmall(d, (lo + hi + 1) \div 2, 0), r) <= 0
    THEN NatDigit(r, d, (lo + hi + 1) \div 2, hi)
    ELSE NatDigit(r, d, lo, (lo + hi + 1) \div 2 - 1)

\* long division by d, most significant limb first
RECURSIVE NatLongDiv(_, _, _, _)
NatLongDiv(a, d, i, r) ==
    IF i = 0 THEN [q |-> <<>>, r |-> r]
    ELSE LET cur == NatNorm(<<a[i]>> \o r)
             digit == NatDigit(cur, d, 0, Base - 1)
             rest == NatLongDiv(a, d, i - 1,
                                IF digit = 0 THEN cur
                                ELSE NatSub(cur, NatMulSmall(d, digit, 0)))
         IN [q |-> rest.q \o <<digit>>, r |-> rest.r]

NatDiv(a, d) == Quotient(NatLongDiv(a, d, Len(a), <<>>))

\* limbs of guard kept by the float division before rounding
DivLimbs == 4

FDivSticky(s, d, e) ==
    FRound(s, NatMulSmall(d.q, 2, IF d.r # <<>> THEN 1 ELSE 0), e)

\* x / y for y # 0
FDiv(x, y) ==
    IF x.sgn = 0 THEN FZero
    ELSE FDivSticky(x.sgn * y.sgn, NatDiv(Zeros(DivLimbs) \o x.man, y.man),
                    x.exp - y.exp - DivLimbs * LimbBits - 1)

-----------------------------------------------------------------------------
(* analysis/ai_analyzer.py: RecommendationEngine                           *)
(*                                                                         *)
(* An article dict is a record                                             *)
(*   [id, sentiment, sentiment_score, impact_level, category,              *)
(*    mentioned_stocks]                                                    *)
(* where sentiment_score is a float or None and mentioned_stocks is the    *)
(* set of symbols of the article's mentioned_stocks relation.              *)

\* Python's None in a float-valued field (NewsArticle.sentiment_score is nullable)
None == [sgn |-> 2, man |-> <<>>, exp |-> 0]
IsNone(x) == x.sgn = 2

\* the symbols in Stock.Meta.ordering order
StockSymbols == <<"INFY", "TCS">>

\* dict insertion order of stock_news: first article mentioning the symbol
RECURSIVE StockKeysFrom(_, _, _)
StockKeysFrom(articles, i, keys) ==
    IF i > Len(articles) THEN keys
    ELSE LET new == SelectSeq(StockSymbols,
                      LAMBDA s : s \in articles[i].mentioned_stocks
                                 /\ \A k \in 1..Len(keys) : keys[k] # s)
         IN StockKeysFrom(articles, i + 1, keys \o new)

StockKeys(articles) == StockKeysFrom(articles, 1, <<>>)

\* stock_news[stock]: the articles appended for the symbol, in list order
StockNews(articles, stock) ==
    SelectSeq(articles, LAMBDA a : stock \in a.mentioned_stocks)

\* MEDIUM impact weighted like LOW
ImpactWeightFlat(impact_level) ==
    IF impact_level = "HIGH" THEN 3 ELSE 1

ImpactWeight(impact_level) ==
    IF impact_level = "HIGH" THEN 3
    ELSE IF impact_level = "MEDIUM" THEN 2
    ELSE 1

\* the accumulation loop; raised records the TypeError of weight * None
RECURSIVE SentimentLoop(_, _, _)
SentimentLoop(articles, i, acc) ==
    IF i > Len(articles) \/ acc.raised THEN acc
    ELSE LET a == articles[i]
             weight == ImpactWeight(a.impact_level)
             scored == a.sentiment \in {"POSITIVE", "NEGATIVE"}
         IN IF scored /\ IsNone(a.sentiment_score)
            THEN [acc EXCEPT !.raised = TRUE]
            ELSE SentimentLoop(articles, i + 1,
                   [acc EXCEPT
                      !.total_impact_weight = @ + weight,
                      !.positive_weight =
                          IF a.sentiment = "POSITIVE"
                          THEN FAdd(@, FMulInt(a.sentiment_score, weight)) ELSE @,
                      !.negative_weight =
                          IF a.sentiment = "NEGATIVE"
                          THEN FAdd(@, FMulInt(a.sentiment_score, weight)) ELSE @,
                      !.high_impact_articles =
                          IF a.impact_level = "HIGH" THEN @ + 1 ELSE @,
                      !.key_factors =
                          IF a.category # "OTHER" THEN @ \cup {a.category} ELSE @])

Count(seq, Test(_)) == Len(SelectSeq(seq, Test))

\* the text of _generate_reasoning, as the values its sentences are built from
GenerateReasoning(stock_symbol, recommendation, articles, net_sentiment) ==
    [article_count |-> Len(articles),
     stock_symbol |-> stock_symbol,
     sentiment_desc |-> IF FGt(net_sentiment, FZero) THEN "positive"
                        ELSE IF FLt(net_sentiment, FZero) THEN "negative"
                        ELSE "mixed",
     positive_count |-> Count(articles, LAMBDA a : a.sentiment = "POSITIVE"),
     negative_count |-> Count(articles, LAMBDA a : a.sentiment = "NEGATIVE"),
     advice |-> recommendation,
     earnings |-> \E i \in 1..Len(articles) : articles[i].category = "EARNINGS",
     policy |-> \E i \in 1..Len(articles) : articles[i].category = "POLICY"]

NoRecommendation == [kind |-> "none"]
Raised == [kind |-> "raised"]

Ids(articles) == [i \in 1..Len(articles) |-> articles[i].id]

\* the float literals of _analyze_stock_sentiment
WatchAbove == FLit(3, 10)
BuyAbove == FLit(6, 10)
LowRiskAbove == FLit(7, 10)
SellBelow == FNeg(FLit(3, 10))

\* net_sentiment = (positive_weight - negative_weight) / total_impact_weight
NetSentiment(positive_weight, negative_weight, total_impact_weight) ==
    FDivInt(FSub(positive_weight, negative_weight), total_impact_weight)

\* the BUY breakpoint taken as inclusive
RecommendationTypeInclusive(net_sentiment) ==
    IF FGt(net_sentiment, WatchAbove)
    THEN (IF FGe(net_sentiment, BuyAbove) THEN "BUY" ELSE "WATCH")
    ELSE IF FLt(net_sentiment, SellBelow) THEN "SELL"
    ELSE "HOLD"

RecommendationType(net_sentiment) ==
    IF FGt(net_sentiment, WatchAbove)
    THEN (IF FGt(net_sentiment, BuyAbove) THEN "BUY" ELSE "WATCH")
    ELSE IF FLt(net_sentiment, SellBelow) THEN "SELL"
    ELSE "HOLD"

RiskLevel(net_sentiment) ==
    IF FGt(net_sentiment, WatchAbove)
    THEN (IF FGt(net_sentiment, LowRiskAbove) THEN "LOW" ELSE "MEDIUM")
    ELSE IF FLt(net_sentiment, SellBelow) THEN "HIGH"
    ELSE "MEDIUM"

\* base + x * 20
Scaled(base, x) == FAdd(FInt(base), FMulInt(x, 20))

\* the positive band without its cap of 95
ConfidenceUncapped(net_sentiment) ==
    IF FGt(net_sentiment, WatchAbove)
    THEN Scaled(80, net_sentiment)
    ELSE IF FLt(net_sentiment, SellBelow)
    THEN FMin(Scaled(70, FAbs(net_sentiment)), FInt(90))
    ELSE Scaled(40, FAbs(net_sentiment))

Confidence(net_sentiment) ==
    IF FGt(net_sentiment, WatchAbove)
    THEN FMin(Scaled(80, net_sentiment), FInt(95))
    ELSE IF FLt(net_sentiment, SellBelow)
    THEN FMin(Scaled(70, FAbs(net_sentiment)), FInt(90))
    ELSE Scaled(40, FAbs(net_sentiment))

\* the dict returned at the end of _analyze_stock_sentiment
RecommendationDict(stock_symbol, articles, acc, net_sentiment, recommendation_type) ==
    [kind |-> "rec",
     stock_symbol |-> stock_symbol,
     recommendation |-> recommendation_type,
     risk_level |-> RiskLevel(net_sentiment),
     confidence_level |-> Confidence(net_sentiment),
     reasoning |-> GenerateReasoning(stock_symbol, recommendation_type,
                                     articles, net_sentiment),
     key_factors |-> acc.key_factors,
     related_articles |-> SelectSeq(Ids(articles), LAMBDA x : x # 0),
     net_sentiment_score |-> net_sentiment,
     total_articles |-> Len(articles),
     high_impact_articles |-> acc.high_impact_articles]

\* _analyze_stock_sentiment from net_sentiment on
Recommend(stock_symbol, articles, acc, net_sentiment) ==
    RecommendationDict(stock_symbol, articles, acc, net_sentiment,
                       RecommendationType(net_sentiment))

\* _analyze_stock_sentiment after its loop has left acc
AfterLoop(stock_symbol, articles, acc) ==
    IF acc.raised THEN Raised
    ELSE IF acc.total_impact_weight = 0 THEN NoRecommendation
    ELSE Recommend(stock_symbol, articles, acc,
                   NetSentiment(acc.positive_weight, acc.negative_weight,
                                acc.total_impact_weight))

AnalyzeStockSentiment(stock_symbol, articles) ==
    IF articles = <<>> THEN NoRecommendation
    ELSE AfterLoop(stock_symbol, articles,
                   SentimentLoop(articles, 1,
                      [positive_weight |-> FZero, negative_weight |-> FZero,
                       total_impact_weight |-> 0, high_impact_articles |-> 0,
                       key_factors |-> {}, raised |-> FALSE]))

\* what one pass of the loop over stock_news.items() adds for the result r
\* of _analyze_stock_sentiment: a None result is dropped
Appended(r) == IF r.kind = "rec" THEN <<r>> ELSE <<>>

\* an exception of _analyze_stock_sentiment passed on
Uncaught(r) == [raised |-> r.kind = "raised", recommendations |-> Appended(r)]

\* the loop body without its try/except
StockRecommendationUncaught(stock_symbol, articles) ==
    Uncaught(AnalyzeStockSentiment(stock_symbol, articles))

\* the body of the loop over stock_news.items(): an exception is caught,
\* logged and the loop continues
StockRecommendation(stock_symbol, articles) ==
    [raised |-> FALSE,
     recommendations |-> Appended(AnalyzeStockSentiment(stock_symbol, articles))]

RECURSIVE RecommendationLoop(_, _, _, _)
RECURSIVE AfterStock(_, _, _, _, _)

AfterStock(analyzed_articles, keys, i, recommendations, step) ==
    IF step.raised THEN [raised |-> TRUE, recommendations |-> <<>>]
    ELSE RecommendationLoop(analyzed_articles, keys, i + 1,
                            recommendations \o step.recommendations)

RecommendationLoop(analyzed_articles, keys, i, recommendations) ==
    IF i > Len(keys) THEN [raised |-> FALSE, recommendations |-> recommendations]
    ELSE AfterStock(analyzed_articles, keys, i, recommendations,
                    StockRecommendation(keys[i], StockNews(analyzed_articles, keys[i])))

\* the outcome of a call: the returned list, or raised = TRUE when an
\* exception reaches the caller
GenerateStockRecommendations(analyzed_articles) ==
    RecommendationLoop(analyzed_articles, StockKeys(analyzed_articles), 1, <<>>)

-----------------------------------------------------------------------------
(* The recommendation engine as a pure function: a caller collects a list  *)
(* of article dicts and calls generate_stock_recommendations on it.        *)

VARIABLES engine_input, engine_output, engine_reordered, engine_pc

\* the database: the clock and the tables of news/models.py
VARIABLES today, news_article, recommendation, market_session

engine_vars == <<engine_input, engine_output, engine_reordered, engine_pc>>
\* the tables of the entry signals: the price fields of the Stock rows,
\* CorporateAction, EntryOpportunity, and the outcome of the last run of
\* generate_all_entry_signals, or the last call of one detector, on the data
\* as it is now
VARIABLES stock_price, corporate_action, entry_opportunity, signal_run

\* the last advice of the holding scorer of portfolio_analyzer.py
VARIABLES holding_advice

\* a NewsAnalyzer: the models its constructor found, and its last call
VARIABLES analyzer, analyzer_call

\* the PromoterHolding table and the last call of a SignalAnalyzer on it
VARIABLES promoter_holding, holding_call

\* the holdings of the portfolio and what analyze_portfolio returned for them
VARIABLES portfolio_holding, portfolio_call

\* the executions of generate_daily_recommendations that are under way: the
\* position and the locals of each
VARIABLES daily_run

\* the cache entry of an image import and the thread that runs the import
VARIABLES import_task, import_thread

task_vars == <<today, news_article, recommendation, market_session>>
signal_tables == <<stock_price, corporate_action, entry_opportunity>>
signal_vars == <<signal_tables, signal_run>>
analyzer_vars == <<analyzer, analyzer_call>>
holding_vars == <<promoter_holding, holding_call>>
portfolio_vars == <<portfolio_holding, portfolio_call>>
import_vars == <<import_task, import_thread>>
late_vars == <<portfolio_vars, daily_run, import_vars>>
scoring_vars == <<holding_advice, analyzer_vars, holding_vars, late_vars>>
vars == <<engine_vars, task_vars, signal_vars, scoring_vars>>

MaxArticles == 2
MaxOrdered == 3

NoOutput == [raised |-> FALSE, recommendations |-> <<>>]

\* sentiment and sentiment_score of the dicts: scores inside [0, 1], one
\* above it, a missing one; the rule-based NEUTRAL always carries 0.5
EngineScores == {FLit(6, 10), FLit(8, 10), FLit(2, 1), None}
EngineSentiments ==
    ({"POSITIVE"} \X EngineScores)
    \cup ({"NEGATIVE"} \X {FLit(6, 10), FLit(8, 10)})
    \cup {<<"NEUTRAL", FLit(5, 10)>>}
SharedSentiments ==
    {<<"POSITIVE", FLit(8, 10)>>, <<"NEGATIVE", FLit(6, 10)>>,
     <<"NEUTRAL", FLit(5, 10)>>}
EngineImpacts == {"HIGH", "MEDIUM", "LOW"}

\* dicts about one stock, and dicts that mention a second stock as well
EngineArticles ==
    {[sentiment |-> ss[1], sentiment_score |-> ss[2], impact_level |-> im,
      category |-> "OTHER", mentioned_stocks |-> {"TCS"}]
        : ss \in EngineSentiments, im \in EngineImpacts}
    \cup
    {[sentiment |-> ss[1], sentiment_score |-> ss[2], impact_level |-> im,
      category |-> "OTHER", mentioned_stocks |-> {"INFY", "TCS"}]
        : ss \in SharedSentiments, im \in EngineImpacts}

\* articles of one stock whose weighted scores are summed in list order
OrderedScores == {FLit(3, 10), FLit(6, 10), FLit(8, 10)}
OrderedArticles ==
    {[sentiment |-> se, sentiment_score |-> sc, impact_level |-> im,
      category |-> "EARNINGS", mentioned_stocks |-> {"TCS"}]
        : se \in {"POSITIVE", "NEGATIVE"}, sc \in OrderedScores,
          im \in {"HIGH", "MEDIUM"}}

EngineInit ==
    /\ engine_input = <<>>
    /\ engine_output = NoOutput
    /\ engine_reordered = NoOutput
    /\ engine_pc = "collect"

\* the caller appends an article dict; ids are the positions in the list
Collect(a, limit) ==
    /\ engine_pc = "collect"
    /\ Len(engine_input) < limit
    /\ engine_input' = Append(engine_input, [id |-> Len(engine_input) + 1] @@ a)
    /\ UNCHANGED <<engine_output, engine_reordered, engine_pc, task_vars, signal_vars,
                 scoring_vars>>

CollectArticle == \E a \in EngineArticles : Collect(a, MaxArticles)

CollectOrdered == \E a \in OrderedArticles : Collect(a, MaxOrdered)

Generate ==
    /\ engine_pc = "collect"
    /\ engine_output' = GenerateStockRecommendations(engine_input)
    /\ engine_pc' = "returned"
    /\ UNCHANGED <<engine_input, engine_reordered, task_vars, signal_vars,
                 scoring_vars>>

Reordered(articles, p) == [i \in 1..Len(articles) |-> articles[p[i]]]

\* a second call on the same dicts in another order
GenerateReordered ==
    /\ engine_pc = "returned"
    /\ \E p \in Permutations(1..Len(engine_input)) :
          engine_reordered' =
              GenerateStockRecommendations(Reordered(engine_input, p))
    /\ engine_pc' = "reordered"
    /\ UNCHANGED <<engine_input, engine_output, task_vars, signal_vars,
                 scoring_vars>>

-----------------------------------------------------------------------------
(* news/tasks.py over the database tables it reads and writes.  A table is *)
(* a sequence of rows, the primary key of a row is its position.  Every    *)
(* ORM call is committed on its own (no transaction block in the tasks).   *)
(* Dates are day numbers; today is the date the tasks compute.             *)

MaxDay == 1
MaxArticleRows == 2
MaxTaskArticles == 1
MaxRecommendationRows == 2

Days == 0..MaxDay

\* the MarketSession row of a date, exists = FALSE while there is none
NoSession == [exists |-> FALSE, analysis_completed |-> FALSE,
              recommendations_generated |-> FALSE, total_recommendations |-> 0]

\* what the scraper delivers for one article: the age of its publication
\* date in days, the stocks the extractor finds in its text and the
\* detector keywords its title and content contain
TaskScraped == [age : {0}, mentioned_stocks : {{"TCS"}, {"INFY", "TCS"}},
                keywords : {{}}]

\* the answers of NewsAnalyzer.analyze_article, which depend on the text and
\* on the model or service that is configured; the last one stands for an
\* exception in the loop body
AnalysisResults ==
    {[sentiment |-> "POSITIVE", sentiment_score |-> FLit(8, 10),
      impact_level |-> "HIGH", confidence_score |-> FLit(7, 10),
      category |-> "EARNINGS"],
     [sentiment |-> "NEGATIVE", sentiment_score |-> FLit(6, 10),
      impact_level |-> "MEDIUM", confidence_score |-> FLit(6, 10),
      category |-> "OTHER"]}
AnalysisRaised ==
    [sentiment |-> "raised", sentiment_score |-> None, impact_level |-> "raised",
     confidence_score |-> None, category |-> "raised"]

\* a DateField that is NULL
NoDate == -1

\* no run of generate_all_entry_signals since the data last changed
NoRun == [status |-> "idle", emitted |-> {}]

TaskInit ==
    /\ today = 0
    /\ news_article = <<>>
    /\ recommendation = <<>>
    /\ market_session = [d \in Days |-> NoSession]

\* Stock rows without a price, no corporate action, no opportunity
SignalInit ==
    /\ stock_price = [s \in {StockSymbols[i] : i \in 1..Len(StockSymbols)} |->
                         [current_price |-> FALSE, price_updated_at |-> NoDate]]
    /\ corporate_action = <<>>
    /\ entry_opportunity = <<>>
    /\ signal_run = NoRun

Seqs(S, n) == UNION {[1..k -> S] : k \in 0..n}

\* a NewsArticle row as NewsArticle.objects.create and mentioned_stocks.set
\* leave it
NewArticle(data, day) ==
    [published_at |-> day - data.age,
     mentioned_stocks |-> data.mentioned_stocks,
     keywords |-> data.keywords,
     sentiment |-> "PENDING", sentiment_score |-> None,
     impact_level |-> "PENDING", confidence_score |-> None,
     category |-> "NONE", is_analyzed |-> FALSE]

\* collect_morning_news: get or create today's session, save the batch;
\* the table holds at most limit rows
CollectMorningNews(scraped, limit) ==
    \E batch \in Seqs(scraped, limit - Len(news_article)) :
        /\ news_article' =
              news_article \o [i \in 1..Len(batch) |-> NewArticle(batch[i], today)]
        /\ market_session' = [market_session EXCEPT ![today].exists = TRUE]
        /\ signal_run' = NoRun
        /\ UNCHANGED <<today, recommendation, signal_tables>>

CollectAnalysisNews ==
    CollectMorningNews(TaskScraped, MaxArticleRows)
        /\ UNCHANGED <<engine_vars, scoring_vars>>

CollectTaskNews ==
    CollectMorningNews(TaskScraped, MaxTaskArticles)
        /\ UNCHANGED <<engine_vars, scoring_vars>>

MaxLinkArticles == 2

\* what the scrapers find about one stock
LinkScraped == [age : {0}, mentioned_stocks : {{"TCS"}}, keywords : {{}}]

CollectLinkNews ==
    CollectMorningNews(LinkScraped, MaxLinkArticles)
        /\ UNCHANGED <<engine_vars, scoring_vars>>

\* midnight passes
NextDay ==
    /\ today < MaxDay
    /\ today' = today + 1
    /\ signal_run' = NoRun
    /\ UNCHANGED <<news_article, recommendation, market_session, engine_vars,
                   scoring_vars,
                   signal_tables>>

\* the filter without its is_analyzed condition
TodaysArticles(table, day) ==
    {id \in 1..Len(table) : table[id].published_at = day}

\* NewsArticle.objects.filter(published_at__date=today, is_analyzed=False)
UnanalyzedArticles(table, day) ==
    {id \in 1..Len(table) :
        table[id].published_at = day /\ ~table[id].is_analyzed}

\* the loop body of analyze_news_batch for one article: the row after
\* article.save(), or the unchanged row when the body raised; the Category
\* rows of all category names exist (management command init_data)
AnalyzeArticle(row, result) ==
    IF result = AnalysisRaised THEN row
    ELSE [row EXCEPT !.sentiment = result.sentiment,
                     !.sentiment_score = result.sentiment_score,
                     !.impact_level = result.impact_level,
                     !.confidence_score = result.confidence_score,
                     !.category = result.category,
                     !.is_analyzed = TRUE]

\* market_session = MarketSession.objects.get(date=today) and the save after
\* it; get raises when the row is missing and the task returns its error
SaveSession(sessions, day, analysis, generated, total) ==
    IF ~sessions[day].exists THEN sessions
    ELSE [sessions EXCEPT
            ![day].analysis_completed = @ \/ analysis,
            ![day].recommendations_generated = @ \/ generated,
            ![day].total_recommendations = IF generated THEN total ELSE @]

\* analyze_news_batch with the analyzer's answers drawn from a set; with
\* nothing selected it returns at once
AnalyzeNewsBatchWith(answers) ==
    LET selected == UnanalyzedArticles(news_article, today)
    IN /\ \E results \in [selected -> answers \cup {AnalysisRaised}] :
             news_article' =
                 [id \in 1..Len(news_article) |->
                     IF id \in selected
                     THEN AnalyzeArticle(news_article[id], results[id])
                     ELSE news_article[id]]
       /\ market_session' =
             IF selected = {} THEN market_session
             ELSE SaveSession(market_session, today, TRUE, FALSE, 0)
       /\ signal_run' = NoRun
       /\ UNCHANGED <<today, recommendation, engine_vars, scoring_vars,
                    signal_tables>>

AnalyzeNewsBatch == AnalyzeNewsBatchWith(AnalysisResults)

\* the filter with published_at__date=today alone
ArticlesOfDay(table, day) ==
    {id \in 1..Len(table) : table[id].published_at = day}

\* NewsArticle.objects.filter(published_at__date=today, is_analyzed=True)
AnalyzedArticles(table, day) ==
    {id \in 1..Len(table) :
        table[id].published_at = day /\ table[id].is_analyzed}

\* article_info of a row
ArticleInfo(id, row) ==
    [id |-> id,
     sentiment |-> row.sentiment,
     sentiment_score |-> row.sentiment_score,
     impact_level |-> row.impact_level,
     category |-> IF row.category = "NONE" THEN "OTHER" ELSE row.category,
     mentioned_stocks |-> row.mentioned_stocks]

\* the old rows left as they are
DeactivateNone(table, stock) == table

\* Recommendation.objects.filter(stock=stock, is_active=True)
\*     .update(is_active=False)
DeactivateOld(table, stock) ==
    [i \in 1..Len(table) |->
        IF table[i].stock = stock /\ table[i].is_active
        THEN [table[i] EXCEPT !.is_active = FALSE]
        ELSE table[i]]

CreateOutcomes == {"created", "get_raised", "create_raised", "link_raised"}

\* the row that Recommendation.objects.create and related_articles.set leave
NewRecommendation(rec_data, outcome, day) ==
    [stock |-> rec_data.stock_symbol,
     recommendation |-> rec_data.recommendation,
     risk_level |-> rec_data.risk_level,
     confidence_level |-> rec_data.confidence_level,
     reasoning |-> rec_data.reasoning,
     key_factors |-> rec_data.key_factors,
     valid_until |-> day + 1,
     is_active |-> TRUE,
     related_articles |->
         IF outcome = "link_raised" THEN {}
         ELSE {rec_data.related_articles[i] :
                 i \in 1..Len(rec_data.related_articles)}]

\* the loop body of generate_daily_recommendations for one rec_data:
\* deactivate, create, link; an exception ends the body where it is raised
SaveRecommendation(table, rec_data, outcome, day) ==
    LET deactivated == DeactivateOld(table, rec_data.stock_symbol)
    IN CASE outcome = "get_raised" -> table
         [] outcome = "create_raised" -> deactivated
         [] OTHER -> Append(deactivated, NewRecommendation(rec_data, outcome, day))

RECURSIVE SaveRecommendations(_, _, _, _, _)
SaveRecommendations(table, recs, outcomes, i, day) ==
    IF i > Len(recs) THEN table
    ELSE SaveRecommendations(SaveRecommendation(table, recs[i], outcomes[i], day),
                             recs, outcomes, i + 1, day)

\* a queryset ordered by -published_at: articles of one date come in the
\* order of their times of day, which the rows here do not keep
RECURSIVE Orders(_)
Orders(ids) ==
    IF ids = {} THEN {<<>>}
    ELSE UNION {{<<id>> \o rest : rest \in Orders(ids \ {id})} : id \in ids}

\* generate_daily_recommendations from the engine's outcome on: the loop
\* over the recommendations and the update of today's session
SaveRun(order, outcome) ==
    /\ Len(recommendation) + Len(outcome.recommendations) <= MaxRecommendationRows
    /\ \E outcomes \in [1..Len(outcome.recommendations) -> CreateOutcomes] :
          /\ recommendation' =
                SaveRecommendations(recommendation, outcome.recommendations,
                                    outcomes, 1, today)
          /\ market_session' =
                IF order = <<>> \/ outcome.raised THEN market_session
                ELSE SaveSession(market_session, today, FALSE, TRUE,
                       Cardinality({i \in DOMAIN outcomes : outcomes[i] = "created"}))

\* generate_daily_recommendations; without analyzed articles, or when the
\* engine raises, it returns at once
GenerateDailyRecommendations ==
    /\ \E order \in Orders(AnalyzedArticles(news_article, today)) :
          SaveRun(order,
                  GenerateStockRecommendations(
                      [i \in 1..Len(order) |->
                          ArticleInfo(order[i], news_article[order[i]])]))
    /\ UNCHANGED <<today, news_article, engine_vars, scoring_vars, signal_vars>>

\* generate_daily_recommendations statement by statement, for the executions
\* that share the database: the task of the schedule and the thread that
\* the dashboard starts (dashboard/views.py, run_news_collection)
Runners == {"scheduled", "dashboard"}

NoDailyRun == [pc |-> "idle"]

RunInit == daily_run = [p \in Runners |-> NoDailyRun]

run_frame == <<today, news_article, engine_vars, signal_vars, holding_advice,
               analyzer_vars, holding_vars, portfolio_vars, import_vars>>

\* lines 185-216: the analyzed articles of today are read and the engine
\* returns its list; without articles, or when the engine raises, the
\* execution returns and leaves nothing behind
StartDailyRun(p) ==
    /\ daily_run[p].pc = "idle"
    /\ \E order \in Orders(AnalyzedArticles(news_article, today)) :
          LET outcome == GenerateStockRecommendations(
                             [i \in 1..Len(order) |->
                                 ArticleInfo(order[i], news_article[order[i]])])
          IN /\ order # <<>>
             /\ ~outcome.raised
             /\ daily_run' =
                   [daily_run EXCEPT ![p] =
                       [pc |-> "loop", day |-> today,
                        recommendations |-> outcome.recommendations,
                        generated_count |-> 0]]
    /\ UNCHANGED <<recommendation, market_session, run_frame>>

\* lines 222-229: Stock.objects.get and the update that deactivates the old
\* recommendations of the stock; DoesNotExist ends the loop body
DeactivateOldOf(p) ==
    /\ daily_run[p].pc = "loop"
    /\ daily_run[p].recommendations # <<>>
    /\ \/ /\ recommendation' =
                DeactivateOld(recommendation,
                              Head(daily_run[p].recommendations).stock_symbol)
          /\ daily_run' = [daily_run EXCEPT ![p].pc = "create"]
       \/ /\ daily_run' =
                [daily_run EXCEPT ![p].recommendations = Tail(@)]
          /\ UNCHANGED recommendation
    /\ UNCHANGED <<market_session, run_frame>>

\* lines 231-254: create, link, count; an exception ends the loop body
CreateOf(p) ==
    /\ daily_run[p].pc = "create"
    /\ \E outcome \in CreateOutcomes \ {"get_raised"} :
          /\ outcome # "create_raised"
                 => Len(recommendation) < MaxRecommendationRows
          /\ recommendation' =
                IF outcome = "create_raised" THEN recommendation
                ELSE Append(recommendation,
                            NewRecommendation(Head(daily_run[p].recommendations),
                                              outcome, daily_run[p].day))
          /\ daily_run' =
                [daily_run EXCEPT
                    ![p].pc = "loop",
                    ![p].recommendations = Tail(@),
                    ![p].generated_count =
                        IF outcome = "created" THEN @ + 1 ELSE @]
    /\ UNCHANGED <<market_session, run_frame>>

\* lines 262-268: today's session is updated and the execution returns
UpdateSessionOf(p) ==
    /\ daily_run[p].pc = "loop"
    /\ daily_run[p].recommendations = <<>>
    /\ market_session' =
          SaveSession(market_session, daily_run[p].day, FALSE, TRUE,
                      daily_run[p].generated_count)
    /\ daily_run' = [daily_run EXCEPT ![p] = NoDailyRun]
    /\ UNCHANGED <<recommendation, run_frame>>

StartRun == \E p \in Runners : StartDailyRun(p)
DeactivateStep == \E p \in Runners : DeactivateOldOf(p)
CreateStep == \E p \in Runners : CreateOf(p)
UpdateSessionStep == \E p \in Runners : UpdateSessionOf(p)

-----------------------------------------------------------------------------
(* analysis/entry_signal_analyzer.py: EntrySignalAnalyzer, and the commands *)
(* that fill the tables it reads.  An article's keywords say which of the   *)
(* detectors' word lists its title or content hits: "order" one of          *)
(* order_keywords, "expansion" one of expansion_keywords, "major" one of    *)
(* the words in the title that make a signal STRONG.                        *)

MaxActionRows == 1
MaxOpportunityRows == 3

SignalScraped == [age : {0}, mentioned_stocks : {{"TCS"}},
                  keywords : {{"order"}, {"expansion", "major"}}]

CollectSignalNews ==
    CollectMorningNews(SignalScraped, MaxArticleRows)
        /\ UNCHANGED <<engine_vars, scoring_vars>>

\* StockPriceFetcher.update_stock_prices: the stocks whose fetch succeeds
\* get a price and its timestamp
UpdateStockPrices ==
    /\ \E updated \in SUBSET DOMAIN stock_price :
          stock_price' =
              [s \in DOMAIN stock_price |->
                  IF s \in updated
                  THEN [current_price |-> TRUE, price_updated_at |-> today]
                  ELSE stock_price[s]]
    /\ signal_run' = NoRun
    /\ UNCHANGED <<corporate_action, entry_opportunity, task_vars, engine_vars,
                   scoring_vars>>

\* what the exchange reports for a stock: announced today, with or without
\* the ex-date and record date
FetchedActions(day) ==
    [action_type : {"DIVIDEND", "SPLIT", "BONUS"},
     announcement_date : {day},
     ex_date : {NoDate, day},
     dividend_amount : {12}]

ActionExists(table, stock, action_type, announcement_date) ==
    \E i \in 1..Len(table) :
        /\ table[i].stock = stock
        /\ table[i].action_type = action_type
        /\ table[i].announcement_date = announcement_date

\* fetch_stock_events._fetch_corporate_actions for one reported action
FetchCorporateActions ==
    /\ Len(corporate_action) < MaxActionRows
    /\ \E action_data \in FetchedActions(today) :
          corporate_action' =
              IF ActionExists(corporate_action, "TCS", action_data.action_type,
                              action_data.announcement_date)
              THEN corporate_action
              ELSE Append(corporate_action,
                          [stock |-> "TCS",
                           action_type |-> action_data.action_type,
                           announcement_date |-> action_data.announcement_date,
                           ex_date |-> action_data.ex_date,
                           record_date |-> action_data.ex_date,
                           dividend_amount |-> action_data.dividend_amount])
    /\ signal_run' = NoRun
    /\ UNCHANGED <<stock_price, entry_opportunity, task_vars, engine_vars,
                   scoring_vars>>

RECURSIVE Concat(_)
Concat(seqs) == IF seqs = <<>> THEN <<>> ELSE Head(seqs) \o Concat(Tail(seqs))

\* an unsaved EntryOpportunity; is_active is the field's default
Opportunity(stock, opportunity_type, signal_date, signal_strength, expires_at) ==
    [stock |-> stock, opportunity_type |-> opportunity_type,
     signal_date |-> signal_date, signal_strength |-> signal_strength,
     expires_at |-> expires_at, is_active |-> TRUE]

\* the defaults of detect_price_dips: dip_threshold in tenths of a percent
DipThreshold == 50
DaysLookback == 7

\* the count of the NEGATIVE articles about the stock in the lookback
NegativeNewsIn(articles, stock, day, days_lookback) ==
    Cardinality({id \in 1..Len(articles) :
        /\ stock \in articles[id].mentioned_stocks
        /\ articles[id].sentiment = "NEGATIVE"
        /\ articles[id].published_at >= day - days_lookback})

NegativeNews(articles, stock, day) ==
    NegativeNewsIn(articles, stock, day, DaysLookback)

\* negative_news * 2.5 in tenths of a percent, without the cap
EstimatedDipUncapped(negative_news) == negative_news * 25

\* min(negative_news * 2.5, 10) in tenths of a percent
EstimatedDip(negative_news) ==
    IF negative_news * 25 < 100 THEN negative_news * 25 ELSE 100

PriceDip(stock, negative_news, day) ==
    Opportunity(stock, "PRICE_DIP", day,
                IF EstimatedDip(negative_news) >= 70 THEN "STRONG" ELSE "MODERATE",
                day + 7)

\* the loop body of detect_price_dips for a stock the filter selected
StockDip(stock, negative_news, day, dip_threshold) ==
    IF negative_news >= 2 /\ EstimatedDip(negative_news) >= dip_threshold
    THEN <<PriceDip(stock, negative_news, day)>>
    ELSE <<>>

\* detect_price_dips(dip_threshold, days_lookback): no look at the
\* opportunities that exist
DetectPriceDipsWith(prices, articles, day, dip_threshold, days_lookback) ==
    Concat([k \in 1..Len(StockSymbols) |->
        IF /\ prices[StockSymbols[k]].current_price
           /\ prices[StockSymbols[k]].price_updated_at >= day - days_lookback
        THEN StockDip(StockSymbols[k],
                      NegativeNewsIn(articles, StockSymbols[k], day, days_lookback),
                      day, dip_threshold)
        ELSE <<>>])

\* detect_price_dips()
DetectPriceDips(prices, articles, day) ==
    DetectPriceDipsWith(prices, articles, day, DipThreshold, DaysLookback)

\* the arguments a caller of detect_price_dips passes: the threshold at its
\* default, below the estimate of a single article, between the estimates
\* of 3 and 4 articles and above the cap; the lookback at its default or
\* reaching back to the start of today only
DipThresholds == {0, DipThreshold, 80, 110}
DaysLookbacks == {0, DaysLookback}

MaxDipRows == 5

\* what the scrapers find about a falling stock
DipScraped == [age : {0}, mentioned_stocks : {{"TCS"}}, keywords : {{}}]

CollectDipNews ==
    CollectMorningNews(DipScraped, MaxDipRows)
        /\ UNCHANGED <<engine_vars, scoring_vars>>

\* a caller of detect_price_dips on the tables as they are
CallDetectPriceDips ==
    /\ \E dip_threshold \in DipThresholds, days_lookback \in DaysLookbacks :
          signal_run' =
              [status |-> "detect_price_dips", emitted |-> {},
               dip_threshold |-> dip_threshold, days_lookback |-> days_lookback,
               opportunities |->
                   DetectPriceDipsWith(stock_price, news_article, today,
                                       dip_threshold, days_lookback)]
    /\ UNCHANGED <<signal_tables, task_vars, engine_vars, scoring_vars>>

\* the filter with signal_date__gte=today
RecentSignalSameDay(table, stock, opportunity_type, day) ==
    \E i \in 1..Len(table) :
        /\ table[i].stock = stock
        /\ table[i].opportunity_type = opportunity_type
        /\ table[i].signal_date >= day

\* EntryOpportunity.objects.filter(stock, opportunity_type,
\*     signal_date__gte=today - 7).exists()
RecentSignal(table, stock, opportunity_type, day) ==
    \E i \in 1..Len(table) :
        /\ table[i].stock = stock
        /\ table[i].opportunity_type = opportunity_type
        /\ table[i].signal_date >= day - 7

\* EntryOpportunity.objects.filter(stock, opportunity_type,
\*     signal_date=announcement_date).exists()
SignalOn(table, stock, opportunity_type, signal_date) ==
    \E i \in 1..Len(table) :
        /\ table[i].stock = stock
        /\ table[i].opportunity_type = opportunity_type
        /\ table[i].signal_date = signal_date

\* the loop over article.mentioned_stocks.all() of the two news detectors
NewsSignals(table, article, opportunity_type, day, expires_at) ==
    Concat([k \in 1..Len(StockSymbols) |->
        IF /\ StockSymbols[k] \in article.mentioned_stocks
           /\ ~RecentSignal(table, StockSymbols[k], opportunity_type, day)
        THEN <<Opportunity(StockSymbols[k], opportunity_type, article.published_at,
                           IF "major" \in article.keywords
                           THEN "STRONG" ELSE "MODERATE",
                           expires_at)>>
        ELSE <<>>])

\* detect_new_orders with sentiment='POSITIVE' as its filter
DetectNewOrdersPositive(table, articles, day) ==
    Concat([id \in 1..Len(articles) |->
        IF /\ articles[id].published_at >= day - 30
           /\ articles[id].sentiment = "POSITIVE"
           /\ "order" \in articles[id].keywords
        THEN NewsSignals(table, articles[id], "ORDER_WIN", day, day + 14)
        ELSE <<>>])

\* detect_new_orders
DetectNewOrders(table, articles, day) ==
    Concat([id \in 1..Len(articles) |->
        IF /\ articles[id].published_at >= day - 30
           /\ articles[id].sentiment \in {"POSITIVE", "NEUTRAL"}
           /\ "order" \in articles[id].keywords
        THEN NewsSignals(table, articles[id], "ORDER_WIN", day, day + 14)
        ELSE <<>>])

\* detect_expansion_news
DetectExpansionNews(table, articles, day) ==
    Concat([id \in 1..Len(articles) |->
        IF /\ articles[id].published_at >= day - 30
           /\ articles[id].sentiment = "POSITIVE"
           /\ articles[id].category \in {"MERGER", "SECTOR", "EARNINGS"}
           /\ "expansion" \in articles[id].keywords
        THEN NewsSignals(table, articles[id], "EXPANSION", day, day + 30)
        ELSE <<>>])

DividendStrength(dividend_amount) ==
    IF dividend_amount > 10 THEN "STRONG"
    ELSE IF dividend_amount > 5 THEN "MODERATE"
    ELSE "WEAK"

\* the loop of the three corporate-action detectors; due is the action's
\* ex-date or record date, after which the signal expires
ActionSignals(table, actions, action_type, lookback, fallback, day) ==
    Concat([i \in 1..Len(actions) |->
        IF /\ actions[i].action_type = action_type
           /\ actions[i].announcement_date >= day - lookback
           /\ ~SignalOn(table, actions[i].stock, action_type,
                        actions[i].announcement_date)
        THEN <<Opportunity(actions[i].stock, action_type,
                           actions[i].announcement_date,
                           IF action_type = "DIVIDEND"
                           THEN DividendStrength(actions[i].dividend_amount)
                           ELSE "STRONG",
                           IF action_type = "DIVIDEND"
                           THEN (IF actions[i].ex_date # NoDate
                                 THEN actions[i].ex_date ELSE day + fallback)
                           ELSE (IF actions[i].record_date # NoDate
                                 THEN actions[i].record_date ELSE day + fallback))>>
        ELSE <<>>])

\* detect_dividend_announcements
DetectDividendAnnouncements(table, actions, day) ==
    ActionSignals(table, actions, "DIVIDEND", 30, 30, day)

\* detect_stock_splits
DetectStockSplits(table, actions, day) ==
    ActionSignals(table, actions, "SPLIT", 60, 45, day)

\* detect_bonus_issues
DetectBonusIssues(table, actions, day) ==
    ActionSignals(table, actions, "BONUS", 60, 45, day)

\* the answers of NewsAnalyzer.analyze_article that the news detectors tell
\* apart: the sentiment, and whether the category is one of MERGER, SECTOR
\* and EARNINGS
SignalAnalysisResults ==
    {[sentiment |-> "POSITIVE", sentiment_score |-> FLit(8, 10),
      impact_level |-> "HIGH", confidence_score |-> FLit(7, 10),
      category |-> "EARNINGS"],
     [sentiment |-> "POSITIVE", sentiment_score |-> FLit(8, 10),
      impact_level |-> "HIGH", confidence_score |-> FLit(7, 10),
      category |-> "OTHER"],
     [sentiment |-> "NEUTRAL", sentiment_score |-> FLit(5, 10),
      impact_level |-> "LOW", confidence_score |-> FLit(5, 10),
      category |-> "EARNINGS"],
     [sentiment |-> "NEGATIVE", sentiment_score |-> FLit(6, 10),
      impact_level |-> "MEDIUM", confidence_score |-> FLit(6, 10),
      category |-> "EARNINGS"]}

AnalyzeSignalNews == AnalyzeNewsBatchWith(SignalAnalysisResults)

\* a caller of detect_new_orders on the tables as they are
CallDetectNewOrders ==
    /\ signal_run' =
          [status |-> "detect_new_orders", emitted |-> {},
           opportunity_type |-> "ORDER_WIN",
           opportunities |->
               DetectNewOrders(entry_opportunity, news_article, today)]
    /\ UNCHANGED <<signal_tables, task_vars, engine_vars, scoring_vars>>

\* a caller of detect_expansion_news on the tables as they are
CallDetectExpansionNews ==
    /\ signal_run' =
          [status |-> "detect_expansion_news", emitted |-> {},
           opportunity_type |-> "EXPANSION",
           opportunities |->
               DetectExpansionNews(entry_opportunity, news_article, today)]
    /\ UNCHANGED <<signal_tables, task_vars, engine_vars, scoring_vars>>

\* all_opportunities: every detector reads the tables as they are before
\* the first save
AllOpportunities(table, prices, articles, actions, day) ==
    DetectPriceDips(prices, articles, day)
    \o DetectNewOrders(table, articles, day)
    \o DetectDividendAnnouncements(table, actions, day)
    \o DetectExpansionNews(table, articles, day)
    \o DetectStockSplits(table, actions, day)
    \o DetectBonusIssues(table, actions, day)

\* the opportunities whose save succeeded, in list order
Saved(opps, saved) == Concat([i \in 1..Len(opps) |->
                                 IF saved[i] THEN <<opps[i]>> ELSE <<>>])

\* EntryOpportunity.objects.filter(expires_at__lt=today, is_active=True)
\*     .update(is_active=False)
DeactivateExpired(table, day) ==
    [i \in 1..Len(table) |->
        IF table[i].is_active /\ table[i].expires_at # NoDate
           /\ table[i].expires_at < day
        THEN [table[i] EXCEPT !.is_active = FALSE]
        ELSE table[i]]

\* generate_all_entry_signals from all_opportunities on: the saves, each in
\* its try/except, then the sweep
SaveAndSweep(opps) ==
    /\ Len(entry_opportunity) + Len(opps) <= MaxOpportunityRows
    /\ \E saved \in [1..Len(opps) -> BOOLEAN] :
          /\ entry_opportunity' =
                DeactivateExpired(entry_opportunity \o Saved(opps, saved), today)
          /\ signal_run' =
                [status |-> "returned",
                 emitted |-> {<<opps[i].stock, opps[i].opportunity_type>> :
                                 i \in {j \in 1..Len(opps) : saved[j]}}]

\* generate_all_entry_signals; an exception in a detector (lines 326-331,
\* outside every try) leaves the method before the saves and the sweep
GenerateAllEntrySignals ==
    /\ \/ SaveAndSweep(AllOpportunities(entry_opportunity, stock_price,
                                        news_article, corporate_action, today))
       \/ /\ signal_run' = [status |-> "raised", emitted |-> {}]
          /\ UNCHANGED entry_opportunity
    /\ UNCHANGED <<stock_price, corporate_action, task_vars, engine_vars,
                   scoring_vars>>

-----------------------------------------------------------------------------
(* The holding scorer of portfolio/portfolio_analyzer.py: the analyzer     *)
(* gathers the news sentiment, the technical picture and the valuation of  *)
(* a holding and scores them into a BUY / SELL / HOLD advice.              *)

MaxNewsCount == 2

NoAdvice == [stage |-> "idle"]

\* _analyze_news: the sentiment score of the analysed articles of a stock
NewsSentiment(positive_count, negative_count, neutral_count) ==
    IF positive_count + negative_count + neutral_count > 0
    THEN FDivInt(FInt(positive_count - negative_count),
                 positive_count + negative_count + neutral_count)
    ELSE FZero

\* the outcomes of _technical_analysis: no price data, too little of it, or
\* a trend with at most one momentum pattern
TechnicalAnalyses ==
    {[trend |-> "UNKNOWN", patterns |-> {}],
     [trend |-> "INSUFFICIENT_DATA", patterns |-> {}]}
    \cup {[trend |-> t, patterns |-> p] :
            t \in {"UPTREND", "DOWNTREND"},
            p \in {{}, {"BULLISH_MOMENTUM"}, {"BEARISH_MOMENTUM"}}}

\* the outcomes of _assess_valuation; without price data it is UNKNOWN
Valuations(technical_analysis) ==
    IF technical_analysis.trend = "UNKNOWN" THEN {"UNKNOWN"}
    ELSE {"UNKNOWN", "UNDERVALUED", "OVERVALUED", "FAIR_VALUE"}

\* PortfolioHolding.pnl_percentage
PnlPercentages == {FInt(-15), FInt(-10), FZero, FInt(20), FInt(25)}

\* the scores are a pair <<buy_score, sell_score>>
NewsScores(sentiment) ==
    IF FGt(sentiment, FLit(3, 10)) THEN <<2, 0>>
    ELSE IF FLt(sentiment, FNeg(FLit(3, 10))) THEN <<0, 2>>
    ELSE <<0, 0>>

TrendScores(sc, technical_analysis) ==
    IF technical_analysis.trend = "UPTREND" THEN <<sc[1] + 2, sc[2]>>
    ELSE IF technical_analysis.trend = "DOWNTREND" THEN <<sc[1], sc[2] + 2>>
    ELSE sc

MomentumScores(sc, technical_analysis) ==
    <<sc[1] + (IF "BULLISH_MOMENTUM" \in technical_analysis.patterns THEN 1 ELSE 0),
      sc[2] + (IF "BEARISH_MOMENTUM" \in technical_analysis.patterns THEN 1 ELSE 0)>>

ValuationScores(sc, status) ==
    IF status = "UNDERVALUED" THEN <<sc[1] + 2, sc[2]>>
    ELSE IF status = "OVERVALUED" THEN <<sc[1], sc[2] + 2>>
    ELSE sc

PnlScoresInclusive(sc, pnl_percent) ==
    IF FGe(pnl_percent, FInt(20)) THEN <<sc[1], sc[2] + 1>>
    ELSE IF FLe(pnl_percent, FInt(-10))
    THEN IF sc[1] > sc[2] THEN <<sc[1] + 1, sc[2]>> ELSE <<sc[1], sc[2] + 1>>
    ELSE sc

PnlScores(sc, pnl_percent) ==
    IF FGt(pnl_percent, FInt(20)) THEN <<sc[1], sc[2] + 1>>
    ELSE IF FLt(pnl_percent, FInt(-10))
    THEN IF sc[1] > sc[2] THEN <<sc[1] + 1, sc[2]>> ELSE <<sc[1], sc[2] + 1>>
    ELSE sc

HoldingScores(sentiment, technical_analysis, status, pnl_percent) ==
    PnlScores(
        ValuationScores(
            MomentumScores(
                TrendScores(NewsScores(sentiment), technical_analysis),
                technical_analysis),
            status),
        pnl_percent)

MinInt(a, b) == IF a <= b THEN a ELSE b

ActThreshold == 4

HoldingActionEager(buy_score, sell_score) ==
    IF buy_score > sell_score /\ buy_score >= ActThreshold - 1 THEN "BUY"
    ELSE IF sell_score > buy_score /\ sell_score >= ActThreshold - 1 THEN "SELL"
    ELSE "HOLD"

HoldingAction(buy_score, sell_score) ==
    IF buy_score > sell_score /\ buy_score >= ActThreshold THEN "BUY"
    ELSE IF sell_score > buy_score /\ sell_score >= ActThreshold THEN "SELL"
    ELSE "HOLD"

HoldingConfidence(action, buy_score, sell_score) ==
    IF action = "BUY" THEN MinInt(buy_score * 15, 90)
    ELSE IF action = "SELL" THEN MinInt(sell_score * 15, 90)
    ELSE 60

HoldingRisk(sentiment, technical_analysis) ==
    IF technical_analysis.trend = "DOWNTREND" /\ FLt(sentiment, FZero) THEN "HIGH"
    ELSE IF technical_analysis.trend = "UPTREND" /\ FGt(sentiment, FZero) THEN "LOW"
    ELSE "MEDIUM"

AdviceDict(action, sc, sentiment, technical_analysis) ==
    [action |-> action,
     confidence |-> HoldingConfidence(action, sc[1], sc[2]),
     risk_level |-> HoldingRisk(sentiment, technical_analysis),
     buy_score |-> sc[1],
     sell_score |-> sc[2]]

ScoredAdvice(sc, sentiment, technical_analysis) ==
    AdviceDict(HoldingAction(sc[1], sc[2]), sc, sentiment, technical_analysis)

\* _generate_ai_recommendation
GenerateAiRecommendation(sentiment, technical_analysis, status, pnl_percent) ==
    ScoredAdvice(HoldingScores(sentiment, technical_analysis, status, pnl_percent),
                 sentiment, technical_analysis)

AdviceInit == holding_advice = NoAdvice

\* analyze_single_holding up to the call of the scorer: the news sentiment,
\* the technical picture and the valuation of the holding are gathered
GatherHoldingData ==
    /\ holding_advice = NoAdvice
    /\ \E positive_count, negative_count, neutral_count \in 0..MaxNewsCount,
          technical_analysis \in TechnicalAnalyses, pnl_percent \in PnlPercentages :
          \E status \in Valuations(technical_analysis) :
             holding_advice' =
                 [stage |-> "gathered",
                  sentiment_score |->
                      NewsSentiment(positive_count, negative_count, neutral_count),
                  technical_signals |-> technical_analysis,
                  valuation_status |-> status,
                  pnl_percentage |-> pnl_percent]
    /\ UNCHANGED <<engine_vars, task_vars, signal_vars, analyzer_vars, holding_vars,
                   late_vars>>

\* the dict analyze_single_holding returns
HoldingAnalysis(gathered) ==
    [stage |-> "advised",
     ai_recommendation |->
         GenerateAiRecommendation(gathered.sentiment_score,
                                  gathered.technical_signals,
                                  gathered.valuation_status,
                                  gathered.pnl_percentage),
     sentiment_score |-> gathered.sentiment_score,
     technical_signals |-> gathered.technical_signals,
     valuation_status |-> gathered.valuation_status,
     pnl_percentage |-> gathered.pnl_percentage]

\* analyze_single_holding from the call of the scorer on
AnalyzeSingleHolding ==
    /\ holding_advice.stage = "gathered"
    /\ holding_advice' = HoldingAnalysis(holding_advice)
    /\ UNCHANGED <<engine_vars, task_vars, signal_vars, analyzer_vars, holding_vars,
                   late_vars>>

-----------------------------------------------------------------------------
(* analyze_portfolio of portfolio/portfolio_analyzer.py, with the          *)
(* technical analysis and the valuation computed from the price data the   *)
(* quote service returns.  A price list holds floats and nulls.            *)

MaxHoldings == 2

\* a call that ended in an exception
Raises == [raised |-> TRUE]

\* [p for p in prices if p is not None]
NotNull(prices) == SelectSeq(prices, LAMBDA p : ~IsNone(p))

\* prices[-n:]
LastOf(prices, n) ==
    SubSeq(prices, IF Len(prices) > n THEN Len(prices) - n + 1 ELSE 1, Len(prices))

\* sum(prices[:n]), left to right
RECURSIVE FSum(_, _)
FSum(prices, n) == IF n = 0 THEN FZero ELSE FAdd(FSum(prices, n - 1), prices[n])

\* max(prices[:n]) and min(prices[:n]) of a list that is not empty
RECURSIVE FMaxOf(_, _)
FMaxOf(prices, n) ==
    IF n = 1 THEN prices[1] ELSE FMax(FMaxOf(prices, n - 1), prices[n])

RECURSIVE FMinOf(_, _)
FMinOf(prices, n) ==
    IF n = 1 THEN prices[1] ELSE FMin(FMinOf(prices, n - 1), prices[n])

\* ((a / b) - 1) * 100
PercentOver(a, b) == FMulInt(FSub(FDiv(a, b), FInt(1)), 100)

MinCloses == 20

NoTechnicalAnalysis(trend) == [raised |-> FALSE, trend |-> trend, patterns |-> {}]

Momentum(price_change_5d) ==
    IF FGt(price_change_5d, FInt(5)) THEN {"BULLISH_MOMENTUM"}
    ELSE IF FLt(price_change_5d, FInt(-5)) THEN {"BEARISH_MOMENTUM"}
    ELSE {}

\* the trend and the patterns from the moving average, the recent high and
\* low and the five-day change
Technical(current_price, ma_20, recent_high, recent_low, price_change_5d) ==
    [raised |-> FALSE,
     trend |-> IF FGt(current_price, ma_20) THEN "UPTREND" ELSE "DOWNTREND",
     patterns |->
         (IF FGe(current_price, FMul(recent_high, FLit(98, 100)))
          THEN {"RESISTANCE"} ELSE {})
         \cup (IF FLe(current_price, FMul(recent_low, FLit(102, 100)))
               THEN {"SUPPORT"} ELSE {})
         \cup Momentum(price_change_5d)]

\* _technical_analysis on at least 20 closes: max and min of an empty list
\* raise, and so does a division by a price of zero
TechnicalOn(closes, highs, lows) ==
    IF highs = <<>> \/ lows = <<>> THEN Raises
    ELSE IF \/ closes[Len(closes) - 4] = FZero
            \/ closes[Len(closes) - 19] = FZero
            \/ FMinOf(LastOf(lows, 20), Len(LastOf(lows, 20))) = FZero
    THEN Raises
    ELSE Technical(closes[Len(closes)],
                   FDivInt(FSum(LastOf(closes, 20), 20), 20),
                   FMaxOf(LastOf(highs, 20), Len(LastOf(highs, 20))),
                   FMinOf(LastOf(lows, 20), Len(LastOf(lows, 20))),
                   PercentOver(closes[Len(closes)], closes[Len(closes) - 4]))

\* _technical_analysis
TechnicalAnalysis(price_data) ==
    IF ~price_data.fetched \/ price_data.close = <<>>
    THEN NoTechnicalAnalysis("UNKNOWN")
    ELSE IF Len(NotNull(price_data.close)) < MinCloses
    THEN NoTechnicalAnalysis("INSUFFICIENT_DATA")
    ELSE TechnicalOn(NotNull(price_data.close), NotNull(price_data.high),
                     NotNull(price_data.low))

ValuationStatus(deviation) ==
    IF FGt(deviation, FInt(15)) THEN "OVERVALUED"
    ELSE IF FLt(deviation, FInt(-15)) THEN "UNDERVALUED"
    ELSE "FAIR_VALUE"

\* the status from the average close; the division by an average of zero
\* raises
ValuationOn(current_price, avg_price_3mo) ==
    IF avg_price_3mo = FZero THEN Raises
    ELSE [raised |-> FALSE,
          status |-> ValuationStatus(PercentOver(current_price, avg_price_3mo))]

\* sum(closes) / len(closes) raises on an empty list
AverageValuation(current_price, closes) ==
    IF closes = <<>> THEN Raises
    ELSE ValuationOn(current_price, FDivInt(FSum(closes, Len(closes)), Len(closes)))

\* _assess_valuation; a stock without a current price has the price 0
AssessValuation(current_price, price_data) ==
    IF IsNone(current_price) \/ current_price = FZero
       \/ ~price_data.fetched \/ price_data.close = <<>>
    THEN [raised |-> FALSE, status |-> "UNKNOWN"]
    ELSE AverageValuation(current_price, NotNull(price_data.close))

\* PortfolioHolding.total_value, current_value, pnl and pnl_percentage
TotalValue(holding) == FMul(FInt(holding.quantity), holding.average_price)

CurrentValue(holding) ==
    IF IsNone(holding.current_price) \/ holding.current_price = FZero
    THEN TotalValue(holding)
    ELSE FMul(FInt(holding.quantity), holding.current_price)

Pnl(holding) == FSub(CurrentValue(holding), TotalValue(holding))

PnlPercentage(holding) ==
    IF FGt(TotalValue(holding), FZero)
    THEN FMulInt(FDiv(Pnl(holding), TotalValue(holding)), 100)
    ELSE FZero

\* the dict analyze_single_holding returns
SingleAnalysis(holding, pnl_percentage, sentiment, technical_analysis, valuation, ai_recommendation) ==
    [raised |-> FALSE,
     stock_symbol |-> holding.stock,
     pnl_percentage |-> pnl_percentage,
     recommendation |-> ai_recommendation.action,
     confidence |-> ai_recommendation.confidence,
     risk_level |-> ai_recommendation.risk_level,
     sentiment |-> sentiment,
     technical_signals |-> [trend |-> technical_analysis.trend,
                            patterns |-> technical_analysis.patterns],
     valuation_status |-> valuation.status]

\* analyze_single_holding from the technical analysis on: an exception of
\* _technical_analysis or _assess_valuation leaves the function
Analyzed(holding, pnl_percentage, sentiment, technical_analysis, valuation) ==
    IF technical_analysis.raised \/ valuation.raised THEN Raises
    ELSE SingleAnalysis(holding, pnl_percentage, sentiment, technical_analysis,
                        valuation,
                        GenerateAiRecommendation(sentiment, technical_analysis,
                                                 valuation.status, pnl_percentage))

\* the price lists of three months of quotes: highs and lows lie 2 around
\* the closes, a day without a quote is null in all three
Nulls(n) == [i \in 1..n |-> None]
Flat(price, n) == [i \in 1..n |-> FInt(price)]
Ramp(first, step, n) == [i \in 1..n |-> FInt(first + step * (i - 1))]
Moved(prices, by) ==
    [i \in 1..Len(prices) |->
        IF IsNone(prices[i]) THEN None ELSE FAdd(prices[i], FInt(by))]
Bars(close) ==
    [fetched |-> TRUE, close |-> close, high |-> Moved(close, 2), low |-> Moved(close, -2)]

\* _get_price_data returned {}
NoPriceData == [fetched |-> FALSE, close |-> <<>>, high |-> <<>>, low |-> <<>>]

PriceDatas ==
    {NoPriceData,
     Bars(<<>>),
     Bars(Nulls(3)),
     Bars(Ramp(100, 1, 3)),
     Bars(Ramp(100, 1, 19) \o Nulls(2)),
     Bars(Flat(100, 20)),
     Bars(Nulls(1) \o Ramp(100, 2, 20)),
     Bars(Ramp(138, -2, 20))}

\* _analyze_news: the sentiment score of no article, of one positive and of
\* one negative article
NewsSentiments == {NewsSentiment(0, 0, 0), NewsSentiment(1, 0, 0), NewsSentiment(0, 1, 0)}

\* Stock.current_price is nullable
CurrentPrices == {None, FInt(85), FInt(100), FInt(130)}

\* a position of ten shares bought at 100
Position(stock, current_price) ==
    [stock |-> stock, quantity |-> 10, average_price |-> FInt(100),
     current_price |-> current_price]

\* the functions on every price list and current price of the model,
\* computed once
PnlPercentageOf ==
    [current_price \in CurrentPrices |-> PnlPercentage(Position("", current_price))]
TechnicalOf == [price_data \in PriceDatas |-> TechnicalAnalysis(price_data)]
ValuationOf ==
    [current_price \in CurrentPrices, price_data \in PriceDatas |->
        AssessValuation(current_price, price_data)]

\* analyze_single_holding of a holding whose quotes and news came back as
\* fetched
AnalyzeHolding(holding, fetched) ==
    Analyzed(holding, PnlPercentageOf[holding.current_price], fetched.sentiment,
             TechnicalOf[fetched.price_data],
             ValuationOf[holding.current_price, fetched.price_data])

NoSummary(total_holdings) ==
    [total_holdings |-> total_holdings, buy_recommendations |-> 0,
     sell_recommendations |-> 0, hold_recommendations |-> 0, high_risk_count |-> 0,
     positive_sentiment |-> 0, negative_sentiment |-> 0]

One(condition) == IF condition THEN 1 ELSE 0

\* the summary counts of one more analysis
Counted(summary, analysis) ==
    [summary EXCEPT
        !.buy_recommendations = @ + One(analysis.recommendation = "BUY"),
        !.sell_recommendations = @ + One(analysis.recommendation = "SELL"),
        !.hold_recommendations = @ + One(analysis.recommendation \notin {"BUY", "SELL"}),
        !.high_risk_count = @ + One(analysis.risk_level = "HIGH"),
        !.positive_sentiment = @ + One(FGt(analysis.sentiment, FZero)),
        !.negative_sentiment = @ + One(FLt(analysis.sentiment, FZero))]

\* the body of the loop of analyze_portfolio: the analysis of a holding is
\* appended and counted, a holding whose analysis raised is logged and
\* skipped
Collected(results, analysis) ==
    IF analysis.raised THEN results
    ELSE [holdings_analysis |-> Append(results.holdings_analysis, analysis),
          portfolio_summary |-> Counted(results.portfolio_summary, analysis)]

RECURSIVE PortfolioLoop(_, _, _, _)
PortfolioLoop(holdings, fetched, i, results) ==
    IF i > Len(holdings) THEN results
    ELSE PortfolioLoop(holdings, fetched, i + 1,
                       Collected(results, AnalyzeHolding(holdings[i], fetched[i])))

\* analyze_portfolio
AnalyzePortfolioOn(holdings, fetched) ==
    PortfolioLoop(holdings, fetched, 1,
                  [holdings_analysis |-> <<>>,
                   portfolio_summary |-> NoSummary(Len(holdings))])

NoPortfolioCall == [op |-> "none"]

PortfolioInit == portfolio_holding = <<>> /\ portfolio_call = NoPortfolioCall


HeldStocks(holdings) == {holdings[i].stock : i \in 1..Len(holdings)}

\* a stock is added to the portfolio
AddHolding ==
    /\ portfolio_call = NoPortfolioCall
    /\ Len(portfolio_holding) < MaxHoldings
    /\ \E stock \in {StockSymbols[i] : i \in 1..Len(StockSymbols)}
                    \ HeldStocks(portfolio_holding),
          current_price \in CurrentPrices :
          portfolio_holding' =
              Append(portfolio_holding, Position(stock, current_price))
    /\ UNCHANGED <<portfolio_call, engine_vars, task_vars, signal_vars,
                   holding_advice, analyzer_vars, holding_vars, daily_run,
                   import_vars>>

\* analyze_portfolio on the holdings of the portfolio
AnalyzePortfolio ==
    /\ portfolio_call = NoPortfolioCall
    /\ portfolio_holding # <<>>
    /\ \E fetched \in [1..Len(portfolio_holding) ->
                          [price_data : PriceDatas, sentiment : NewsSentiments]] :
          portfolio_call' =
              [op |-> "analyze_portfolio", fetched |-> fetched,
               results |-> AnalyzePortfolioOn(portfolio_holding, fetched)]
    /\ UNCHANGED <<portfolio_holding, engine_vars, task_vars, signal_vars,
                   holding_advice, analyzer_vars, holding_vars, daily_run,
                   import_vars>>

-----------------------------------------------------------------------------
(* The image import of portfolio/views.py and its progress tracker of      *)
(* portfolio/task_progress.py.  The tracker is an entry of the cache under *)
(* the task id, which the status view reads; the thread is its only        *)
(* writer, and the entry outlives the import (its timeout is an hour from  *)
(* the last write).                                                        *)

MaxExtracted == 2

\* no entry under the key
NoTask == [status |-> "NONE", progress |-> 0, result |-> "None", error |-> "None"]

NoThread ==
    [pc |-> "idle", replace_existing |-> FALSE, success |-> FALSE,
     holdings_data |-> <<>>, i |-> 0, success_count |-> 0, skip_count |-> 0,
     errors |-> 0, prices_updated |-> 0, raised |-> FALSE]

ImportInit == import_task = NoTask /\ import_thread = NoThread

\* TaskProgress.create_task
CreateTask == [status |-> "PENDING", progress |-> 0, result |-> "None",
               error |-> "None"]

\* TaskProgress.update_progress
UpdateProgress(task_data, progress) ==
    IF task_data = NoTask THEN task_data
    ELSE [task_data EXCEPT !.progress = progress, !.status = "IN_PROGRESS"]

\* complete_task without the write of progress
CompleteTaskAtProgress(task_data, result, error) ==
    IF task_data = NoTask THEN task_data
    ELSE [task_data EXCEPT
            !.status = IF error = "None" THEN "COMPLETED" ELSE "FAILED",
            !.result = result,
            !.error = error]

\* TaskProgress.complete_task
CompleteTask(task_data, result, error) ==
    IF task_data = NoTask THEN task_data
    ELSE [task_data EXCEPT
            !.status = IF error = "None" THEN "COMPLETED" ELSE "FAILED",
            !.progress = 100,
            !.result = result,
            !.error = error]

\* the quantity and the average price the processor reads for a holding
\* that parses
ImportedQuantity == 10
ImportedPrice == FInt(130)

\* what the processor reads off the image for one holding: a symbol and the
\* quantity as written
ExtractedHoldings ==
    [symbol : {StockSymbols[i] : i \in 1..Len(StockSymbols)},
     quantity : {"10", "0", "ten"}]

\* int(holding_data.get('quantity', 0)); it raises on "ten"
Quantity(holding_data) ==
    IF holding_data.quantity = "10" THEN ImportedQuantity ELSE 0

\* the result of extract_with_ai or extract_holdings_from_image
Extractions ==
    {[success |-> FALSE, holdings |-> <<>>]}
    \cup {[success |-> TRUE, holdings |-> h] :
             h \in Seqs(ExtractedHoldings, MaxExtracted)}

import_frame == <<engine_vars, task_vars, holding_advice, analyzer_vars,
                  holding_vars, portfolio_call, daily_run>>

\* the thread starts with the arguments of the view: line 793
StartImport ==
    /\ import_thread.pc = "idle"
    /\ \E replace_existing \in BOOLEAN :
          import_thread' = [NoThread EXCEPT !.pc = "created",
                                           !.replace_existing = replace_existing]
    /\ import_task' = CreateTask
    /\ UNCHANGED <<portfolio_holding, signal_vars, import_frame>>

\* line 794
StartExtraction ==
    /\ import_thread.pc = "created"
    /\ import_task' = UpdateProgress(import_task, 0)
    /\ import_thread' = [import_thread EXCEPT !.pc = "processor"]
    /\ UNCHANGED <<portfolio_holding, signal_vars, import_frame>>

\* lines 798-799: the processor is constructed, which may raise, and the
\* progress goes to 20
AnalyzeImage ==
    /\ import_thread.pc = "processor"
    /\ \/ /\ import_task' = UpdateProgress(import_task, 20)
          /\ import_thread' = [import_thread EXCEPT !.pc = "extract"]
       \/ /\ import_thread' = [import_thread EXCEPT !.pc = "except"]
          /\ UNCHANGED import_task
    /\ UNCHANGED <<portfolio_holding, signal_vars, import_frame>>

\* lines 801-810: the extraction returns its result or raises
ExtractFromImage ==
    /\ import_thread.pc = "extract"
    /\ \/ \E result \in Extractions :
             import_thread' = [import_thread EXCEPT
                                  !.pc = "extracted",
                                  !.success = result.success,
                                  !.holdings_data = result.holdings]
       \/ import_thread' = [import_thread EXCEPT !.pc = "except"]
    /\ UNCHANGED <<import_task, portfolio_holding, signal_vars, import_frame>>

\* line 812
ExtractHoldings ==
    /\ import_thread.pc = "extracted"
    /\ import_task' = UpdateProgress(import_task, 40)
    /\ import_thread' = [import_thread EXCEPT !.pc = "check"]
    /\ UNCHANGED <<portfolio_holding, signal_vars, import_frame>>

\* lines 814-825: a failed extraction and an empty list end the import
CheckResult ==
    /\ import_thread.pc = "check"
    /\ IF ~import_thread.success
       THEN /\ import_task' = CompleteTask(import_task, "None", "Extraction failed")
            /\ import_thread' = [import_thread EXCEPT !.pc = "finally"]
       ELSE IF import_thread.holdings_data = <<>>
       THEN /\ import_task' = CompleteTask(import_task, "None", "No holdings detected")
            /\ import_thread' = [import_thread EXCEPT !.pc = "finally"]
       ELSE /\ import_task' = UpdateProgress(import_task, 60)
            /\ import_thread' = [import_thread EXCEPT !.pc = "portfolio"]
    /\ UNCHANGED <<portfolio_holding, signal_vars, import_frame>>

\* lines 827-833: the portfolio is fetched, and emptied on replace_existing
PreparePortfolio ==
    /\ import_thread.pc = "portfolio"
    /\ \/ /\ portfolio_holding' =
                IF import_thread.replace_existing THEN <<>> ELSE portfolio_holding
          /\ import_thread' = [import_thread EXCEPT !.pc = "import", !.i = 1]
       \/ /\ import_thread' = [import_thread EXCEPT !.pc = "except"]
          /\ UNCHANGED portfolio_holding
    /\ UNCHANGED <<import_task, signal_vars, import_frame>>

\* lines 862-870: the imported shares are added to a holding at the average
\* of the two prices
MergeOnce(held) ==
    [quantity |-> held.quantity + ImportedQuantity,
     average_price |->
         FDivInt(FAdd(FMulInt(held.average_price, held.quantity),
                      FMulInt(ImportedPrice, ImportedQuantity)),
                 held.quantity + ImportedQuantity)]

\* the holdings an import can meet: one added by hand or created by the
\* import, and what up to MaxExtracted merges make of it
RECURSIVE MergeChain(_, _)
MergeChain(held, k) ==
    IF k = 0 THEN {held} ELSE {held} \cup MergeChain(MergeOnce(held), k - 1)

Mergeable ==
    MergeChain([quantity |-> 10, average_price |-> FInt(100)], MaxExtracted)
    \cup MergeChain([quantity |-> ImportedQuantity,
                     average_price |-> ImportedPrice], MaxExtracted)

\* the merge on every such holding, computed once
MergedOf == [held \in Mergeable |-> MergeOnce(held)]

\* lines 856-870: the holding of the stock after existing_holding.save()
Merged(holdings, stock) ==
    [k \in 1..Len(holdings) |->
        IF holdings[k].stock = stock
        THEN [holdings[k] EXCEPT
                !.quantity =
                    MergedOf[[quantity |-> holdings[k].quantity,
                              average_price |-> holdings[k].average_price]].quantity,
                !.average_price =
                    MergedOf[[quantity |-> holdings[k].quantity,
                              average_price |-> holdings[k].average_price]].average_price]
        ELSE holdings[k]]

\* 60 + int((i + 1) / len(holdings_data) * 30) for the i-th holding counted
\* from 1; the quotient is exact or rounds to the whole number for the
\* lengths up to 3
LoopProgress(i, n) == 60 + (i * 30) \div n

\* lines 840-891: one pass of the loop over holdings_data, on the holdings,
\* the locals and the tracker.  A holding without quantity is skipped; one
\* that does not parse, or whose create meets the unique constraint on
\* (portfolio, stock), counts as an error; only a created holding moves the
\* progress
ImportStep(holdings, thread, task_data) ==
    LET holding_data == thread.holdings_data[thread.i]
        held == holding_data.symbol \in HeldStocks(holdings)
        next == [thread EXCEPT !.i = @ + 1]
    IN IF holding_data.quantity = "ten"
       THEN [holdings |-> holdings,
             thread |-> [next EXCEPT !.errors = @ + 1, !.skip_count = @ + 1],
             task_data |-> task_data]
       ELSE IF Quantity(holding_data) <= 0
       THEN [holdings |-> holdings,
             thread |-> [next EXCEPT !.skip_count = @ + 1],
             task_data |-> task_data]
       ELSE IF held /\ ~thread.replace_existing
       THEN [holdings |-> Merged(holdings, holding_data.symbol),
             thread |-> [next EXCEPT !.success_count = @ + 1],
             task_data |-> task_data]
       ELSE IF held
       THEN [holdings |-> holdings,
             thread |-> [next EXCEPT !.errors = @ + 1, !.skip_count = @ + 1],
             task_data |-> task_data]
       ELSE [holdings |-> Append(holdings,
                                 [stock |-> holding_data.symbol,
                                  quantity |-> Quantity(holding_data),
                                  average_price |-> ImportedPrice,
                                  current_price |-> None]),
             thread |-> [next EXCEPT !.success_count = @ + 1],
             task_data |-> UpdateProgress(task_data,
                               LoopProgress(thread.i, Len(thread.holdings_data)))]

ImportHolding ==
    /\ import_thread.pc = "import"
    /\ import_thread.i <= Len(import_thread.holdings_data)
    /\ portfolio_holding' =
          ImportStep(portfolio_holding, import_thread, import_task).holdings
    /\ import_thread' =
          ImportStep(portfolio_holding, import_thread, import_task).thread
    /\ import_task' =
          ImportStep(portfolio_holding, import_thread, import_task).task_data
    /\ UNCHANGED <<signal_vars, import_frame>>

\* line 894
FetchCurrentPrices ==
    /\ import_thread.pc = "import"
    /\ import_thread.i > Len(import_thread.holdings_data)
    /\ import_task' = UpdateProgress(import_task, 90)
    /\ import_thread' = [import_thread EXCEPT !.pc = "prices"]
    /\ UNCHANGED <<portfolio_holding, signal_vars, import_frame>>

ImportedSymbols(holdings_data) ==
    {holdings_data[k].symbol : k \in 1..Len(holdings_data)}

\* lines 895-900: update_stock_prices on the stocks of the image; a stock
\* whose fetch fails keeps its price; an exception ends the import
UpdateImportedPrices ==
    /\ import_thread.pc = "prices"
    /\ \/ \E fetched \in [ImportedSymbols(import_thread.holdings_data)
                              -> CurrentPrices] :
             /\ stock_price' =
                   [s \in DOMAIN stock_price |->
                       IF s \in DOMAIN fetched /\ ~IsNone(fetched[s])
                       THEN [current_price |-> TRUE, price_updated_at |-> today]
                       ELSE stock_price[s]]
             /\ portfolio_holding' =
                   [k \in 1..Len(portfolio_holding) |->
                       IF /\ portfolio_holding[k].stock \in DOMAIN fetched
                          /\ ~IsNone(fetched[portfolio_holding[k].stock])
                       THEN [portfolio_holding[k] EXCEPT
                               !.current_price = fetched[portfolio_holding[k].stock]]
                       ELSE portfolio_holding[k]]
             /\ import_thread' =
                   [import_thread EXCEPT
                       !.pc = "summary",
                       !.prices_updated =
                           Cardinality({s \in DOMAIN fetched : ~IsNone(fetched[s])})]
             /\ signal_run' = NoRun
       \/ /\ import_thread' = [import_thread EXCEPT !.pc = "except"]
          /\ UNCHANGED <<stock_price, portfolio_holding, signal_run>>
    /\ UNCHANGED <<import_task, corporate_action, entry_opportunity, import_frame>>

\* line 913
ReportSuccess ==
    /\ import_thread.pc = "summary"
    /\ import_task' = UpdateProgress(import_task, 100)
    /\ import_thread' = [import_thread EXCEPT !.pc = "complete"]
    /\ UNCHANGED <<portfolio_holding, signal_vars, import_frame>>

\* lines 903-914
CompleteImport ==
    /\ import_thread.pc = "complete"
    /\ import_task' =
          CompleteTask(import_task,
                       [success_count |-> import_thread.success_count,
                        skip_count |-> import_thread.skip_count,
                        error_count |-> import_thread.errors,
                        prices_updated |-> import_thread.prices_updated],
                       "None")
    /\ import_thread' = [import_thread EXCEPT !.pc = "finally"]
    /\ UNCHANGED <<portfolio_holding, signal_vars, import_frame>>

\* lines 916-917: the handler of every exception of the try block
FailImport ==
    /\ import_thread.pc = "except"
    /\ import_task' = CompleteTask(import_task, "None", "Import failed")
    /\ import_thread' = [import_thread EXCEPT !.pc = "finally", !.raised = TRUE]
    /\ UNCHANGED <<portfolio_holding, signal_vars, import_frame>>

\* lines 918-924: the temporary file is removed and the thread ends
CleanUp ==
    /\ import_thread.pc = "finally"
    /\ import_thread' = [import_thread EXCEPT !.pc = "done"]
    /\ UNCHANGED <<import_task, portfolio_holding, signal_vars, import_frame>>

-----------------------------------------------------------------------------
(* The classifiers of analysis/ai_analyzer.py (NewsAnalyzer).  Texts are   *)
(* strings; a keyword is found when it occurs in the text as a substring,  *)
(* as Python's in does.                                                    *)

CharAt(s, i) == SubSeq(s, i, i)

\* k in t
In(k, t) == \E i \in 1..(Len(t) - Len(k) + 1) : SubSeq(t, i, i + Len(k) - 1) = k

Uppercase == "ABCDEFGHIJKLMNOPQRSTUVWXYZ"
Lowercase == "abcdefghijklmnopqrstuvwxyz"

Recased(c, hits, to) == IF hits = {} THEN c ELSE CharAt(to, CHOOSE i \in hits : TRUE)

RecasedChar(c, from, to) == Recased(c, {i \in 1..Len(from) : CharAt(from, i) = c}, to)

\* the string recased character by character, by halves
RECURSIVE RecasedStr(_, _, _)
RecasedStr(s, from, to) ==
    IF Len(s) = 0 THEN ""
    ELSE IF Len(s) = 1 THEN RecasedChar(s, from, to)
    ELSE RecasedStr(SubSeq(s, 1, Len(s) \div 2), from, to)
         \o RecasedStr(SubSeq(s, Len(s) \div 2 + 1, Len(s)), from, to)

\* str.lower and str.upper
Lower(s) == RecasedStr(s, Uppercase, Lowercase)
Upper(s) == RecasedStr(s, Lowercase, Uppercase)

\* s[:n]
Prefix(s, n) == IF Len(s) <= n THEN s ELSE SubSeq(s, 1, n)

\* sum(1 for word in words if word in text)
Hits(words, text) == Cardinality({i \in 1..Len(words) : In(words[i], text)})

positive_words ==
    <<"profit", "growth", "gain", "rise", "up", "increase", "bullish", "positive",
      "strong", "beat", "exceed", "outperform", "surge", "rally", "boom", "recovery",
      "dividend", "bonus", "expansion", "merger", "acquisition", "success", "achieve">>

negative_words ==
    <<"loss", "decline", "fall", "down", "decrease", "bearish", "negative", "weak",
      "miss", "fail", "underperform", "crash", "drop", "plunge", "concern", "worry",
      "debt", "liability", "penalty", "investigation", "fraud", "scandal", "crisis">>

Classified(label, confidence) == [label |-> label, confidence |-> confidence]

ConfidenceCap == FLit(8, 10)

RulesConfidenceUncapped(count, other) == FDivInt(FInt(count), count + other + 1)

RulesConfidence(count, other) ==
    FMin(FDivInt(FInt(count), count + other + 1), ConfidenceCap)

RulesSentiment(positive_count, negative_count) ==
    IF positive_count > negative_count
    THEN Classified("POSITIVE", RulesConfidence(positive_count, negative_count))
    ELSE IF negative_count > positive_count
    THEN Classified("NEGATIVE", RulesConfidence(negative_count, positive_count))
    ELSE Classified("NEUTRAL", FLit(5, 10))

RulesOnLower(text_lower) ==
    RulesSentiment(Hits(positive_words, text_lower), Hits(negative_words, text_lower))

\* _analyze_sentiment_rules
AnalyzeSentimentRules(text) == RulesOnLower(Lower(text))

\* what a model or a service call comes to: it raises, or it answers
ServiceRaised == [raised |-> TRUE]

\* the local model's answer mapped to a sentiment
LocalSentiment(label) ==
    IF In("POSITIVE", Upper(label)) \/ label \in {"4", "5"} \/ In("LABEL_2", label)
    THEN "POSITIVE"
    ELSE IF In("NEGATIVE", Upper(label)) \/ label \in {"1", "2"} \/ In("LABEL_0", label)
    THEN "NEGATIVE"
    ELSE "NEUTRAL"

\* _analyze_sentiment_openai: the answer's fields are returned as they are
AnalyzeSentimentOpenai(text, answer) ==
    IF answer.raised THEN Classified("NEUTRAL", FLit(5, 10))
    ELSE Classified(answer.sentiment, answer.confidence)

\* analyze_sentiment on an analyzer with the given models
AnalyzeSentiment(models, text, answer) ==
    IF models.sentiment_analyzer
    THEN IF answer.raised THEN AnalyzeSentimentRules(text)
         ELSE Classified(LocalSentiment(answer.label), answer.score)
    ELSE IF models.openai_client THEN AnalyzeSentimentOpenai(text, answer)
    ELSE AnalyzeSentimentRules(text)

category_keywords ==
    <<[name |-> "EARNINGS",
       keywords |-> <<"earnings", "quarterly", "profit", "revenue", "q1", "q2",
                      "q3", "q4", "results">>],
      [name |-> "POLICY",
       keywords |-> <<"policy", "government", "rbi", "sebi", "ministry", "budget",
                      "tax", "regulation">>],
      [name |-> "IPO",
       keywords |-> <<"ipo", "listing", "debut", "public issue", "share sale",
                      "allotment">>],
      [name |-> "MERGER",
       keywords |-> <<"merger", "acquisition", "takeover", "deal", "buyout",
                      "consolidation">>],
      [name |-> "GLOBAL",
       keywords |-> <<"global", "international", "us", "china", "fed", "dollar",
                      "crude oil">>],
      [name |-> "COMMODITY",
       keywords |-> <<"gold", "silver", "crude", "oil", "commodity", "metal">>],
      [name |-> "CURRENCY",
       keywords |-> <<"rupee", "dollar", "currency", "forex", "exchange rate">>],
      [name |-> "REGULATORY",
       keywords |-> <<"sebi", "rbi", "compliance", "penalty", "investigation",
                      "regulatory">>],
      [name |-> "MARKET_OPEN",
       keywords |-> <<"pre-market", "opening", "early trade", "morning trade">>],
      [name |-> "SECTOR",
       keywords |-> <<"sector", "industry", "banking", "pharma", "it", "auto",
                      "fmcg">>]>>

\* the score of a category: hits / size of its table
CategoryScore(row, text) == FDivInt(FInt(Hits(row.keywords, text)), Len(row.keywords))

NoCategory == [name |-> "", score |-> FZero]

\* max(category_scores.items(), key = score): the first of the highest
\* scores in the order of the table; categories without a hit have no entry
Better(row, score, best) ==
    IF FGt(score, best.score) THEN [name |-> row.name, score |-> score] ELSE best

RECURSIVE BestCategory(_, _, _)
BestCategory(text, i, best) ==
    IF i > Len(category_keywords) THEN best
    ELSE BestCategory(text, i + 1,
                      Better(category_keywords[i],
                             CategoryScore(category_keywords[i], text), best))

\* _categorize_news_openai: the answer's fields are returned as they are
CategorizeNewsOpenai(answer) ==
    IF answer.raised THEN Classified("OTHER", FLit(5, 10))
    ELSE Classified(answer.category, answer.confidence)

Categorized(models, best, answer) ==
    IF best # NoCategory
    THEN Classified(best.name, FMin(FMulInt(best.score, 2), FInt(1)))
    ELSE IF models.openai_client THEN CategorizeNewsOpenai(answer)
    ELSE Classified("OTHER", FLit(5, 10))

\* f"{title} {content}"
FullText(title, content) == title \o " " \o content

\* categorize_news
CategorizeNews(models, title, content, answer) ==
    Categorized(models, BestCategory(Lower(FullText(title, content)), 1, NoCategory),
                answer)

high_impact_keywords ==
    <<"breaking", "major", "significant", "massive", "huge", "unprecedented",
      "crisis", "emergency", "investigation", "fraud", "scandal", "crash",
      "merger", "acquisition", "deal", "ipo", "listing">>

medium_impact_keywords ==
    <<"growth", "decline", "increase", "decrease", "profit", "loss",
      "quarterly", "results", "earnings", "guidance", "outlook">>

major_stocks == {"RELIANCE", "TCS", "HDFCBANK", "INFY", "ITC"}

ImpactScoreFlat(text, mentioned_stocks) ==
    Hits(high_impact_keywords, text)
    + Hits(medium_impact_keywords, text)
    + (IF mentioned_stocks \cap major_stocks # {} THEN 2 ELSE 0)
    + (IF Cardinality(mentioned_stocks) > 3 THEN 1 ELSE 0)

ImpactScore(text, mentioned_stocks) ==
    3 * Hits(high_impact_keywords, text)
    + Hits(medium_impact_keywords, text)
    + (IF mentioned_stocks \cap major_stocks # {} THEN 2 ELSE 0)
    + (IF Cardinality(mentioned_stocks) > 3 THEN 1 ELSE 0)

ImpactLevelExact(impact_score) ==
    IF impact_score = 5
    THEN Classified("HIGH", FMin(FDivInt(FInt(impact_score), 10), FInt(1)))
    ELSE IF impact_score >= 2
    THEN Classified("MEDIUM", FMin(FDivInt(FInt(impact_score), 7), FInt(1)))
    ELSE Classified("LOW", FMax(FDivInt(FInt(impact_score), 5), FLit(2, 10)))

ImpactLevel(impact_score) ==
    IF impact_score >= 5
    THEN Classified("HIGH", FMin(FDivInt(FInt(impact_score), 10), FInt(1)))
    ELSE IF impact_score >= 2
    THEN Classified("MEDIUM", FMin(FDivInt(FInt(impact_score), 7), FInt(1)))
    ELSE Classified("LOW", FMax(FDivInt(FInt(impact_score), 5), FLit(2, 10)))

\* assess_impact_level
AssessImpactLevel(title, content, mentioned_stocks) ==
    ImpactLevel(ImpactScore(Lower(FullText(title, content)), mentioned_stocks))

\* the first place at or after from where sep occurs in t, 0 if none
Find(sep, t, from) ==
    IF \E i \in from..(Len(t) - Len(sep) + 1) : SubSeq(t, i, i + Len(sep) - 1) = sep
    THEN CHOOSE i \in from..(Len(t) - Len(sep) + 1) :
            /\ SubSeq(t, i, i + Len(sep) - 1) = sep
            /\ \A j \in from..(i - 1) : SubSeq(t, j, j + Len(sep) - 1) # sep
    ELSE 0

\* '. '.join(content.split('. ')[:2]) + '.', given the place of the first
\* separator and of the second
TwoSentences(content, second) ==
    IF second = 0 THEN content \o "." ELSE SubSeq(content, 1, second - 1) \o "."

Extract(content, first) ==
    IF first = 0 THEN Prefix(content, 200) \o "..."
    ELSE TwoSentences(content, Find(". ", content, first + 2))

\* generate_summary
GenerateSummary(models, content, answer) ==
    IF models.openai_client /\ Len(content) > 200
    THEN IF answer.raised THEN Prefix(content, 200) \o "..." ELSE answer.summary
    ELSE Extract(content, Find(". ", content, 1))

AnalysisResult(sentiment, category, impact, summary) ==
    [sentiment |-> sentiment.label,
     sentiment_score |-> sentiment.confidence,
     category |-> category.label,
     category_confidence |-> category.confidence,
     impact_level |-> impact.label,
     impact_confidence |-> impact.confidence,
     summary |-> summary,
     confidence_score |->
         FDivInt(FAdd(FAdd(sentiment.confidence, category.confidence),
                      impact.confidence), 3)]

\* analyze_article
AnalyzeArticleText(models, title, content, mentioned_stocks, answers) ==
    AnalysisResult(AnalyzeSentiment(models, FullText(title, content), answers.sentiment),
                   CategorizeNews(models, title, content, answers.category),
                   AssessImpactLevel(title, content, mentioned_stocks),
                   GenerateSummary(models, content, answers.summary))

\* the articles the classifiers are called on
Titles ==
    {"", "TCS Profit Surges", "Breaking: major fraud investigation",
     "Markets steady", "Gold deal"}

Contents ==
    {"", "Quarterly results show growth and gain as earnings rise",
     "Shares fall on weak outlook. Debt concern grows. Analysts worry.",
     "Profit and loss", "Pre-market opening sees early trade flat"}

MentionedStocks ==
    {{}, {"TCS"}, {"WIPRO"}, {"WIPRO", "SBIN", "LT", "ONGC"},
     {"TCS", "WIPRO", "SBIN", "LT"}}

\* no model or service is called
NotCalled == [raised |-> FALSE]

\* what the local model can come to
LocalLabels == {"positive", "negative", "neutral", "LABEL_2", "LABEL_0", "LABEL_1", "5", "1"}
LocalAnswers ==
    {ServiceRaised}
    \cup {[raised |-> FALSE, label |-> l, score |-> FLit(9, 10)] : l \in LocalLabels}

\* what the chat completion can come to: it raises, the answer does not
\* parse, or it parses to any sentiment and confidence
OpenaiSentimentAnswers ==
    {ServiceRaised}
    \cup {[raised |-> FALSE, sentiment |-> l, confidence |-> FLit(9, 10)] :
            l \in {"POSITIVE", "NEGATIVE", "NEUTRAL", "MIXED"}}

OpenaiCategoryAnswers ==
    {ServiceRaised}
    \cup {[raised |-> FALSE, category |-> "IPO", confidence |-> FLit(9, 10)],
          [raised |-> FALSE, category |-> "OTHER", confidence |-> FLit(3, 10)],
          [raised |-> FALSE, category |-> "EARNINGS", confidence |-> FLit(15, 10)]}

OpenaiSummaryAnswers ==
    {ServiceRaised, [raised |-> FALSE, summary |-> "A summary."]}

SentimentAnswers(models) ==
    IF models.sentiment_analyzer THEN LocalAnswers
    ELSE IF models.openai_client THEN OpenaiSentimentAnswers
    ELSE {NotCalled}

CategoryAnswers(models, title, content) ==
    IF models.openai_client
       /\ BestCategory(Lower(FullText(title, content)), 1, NoCategory) = NoCategory
    THEN OpenaiCategoryAnswers
    ELSE {NotCalled}

SummaryAnswers(models, content) ==
    IF models.openai_client /\ Len(content) > 200 THEN OpenaiSummaryAnswers
    ELSE {NotCalled}

NoModels == [sentiment_analyzer |-> FALSE, openai_client |-> FALSE]
NoCall == [op |-> "none"]

\* NewsAnalyzer.__init__ before setup_ai_models has found a model
AnalyzerInit == analyzer = NoModels /\ analyzer_call = NoCall

\* setup_ai_models finds the local model, the OpenAI key, or both
SetupAiModels ==
    /\ analyzer = NoModels
    /\ analyzer_call = NoCall
    /\ \E local, openai \in BOOLEAN :
          /\ local \/ openai
          /\ analyzer' = [sentiment_analyzer |-> local, openai_client |-> openai]
    /\ UNCHANGED <<analyzer_call, engine_vars, task_vars, signal_vars, holding_advice,
                   holding_vars, late_vars>>

Called(op, title, content, mentioned_stocks, answers, result) ==
    /\ analyzer_call' = [op |-> op, title |-> title, content |-> content,
                         mentioned_stocks |-> mentioned_stocks,
                         answers |-> answers, result |-> result]
    /\ UNCHANGED <<analyzer, engine_vars, task_vars, signal_vars, holding_advice,
                   holding_vars, late_vars>>

CallAnalyzeSentiment ==
    /\ analyzer_call = NoCall
    /\ \E title \in Titles, content \in Contents :
          \E answer \in SentimentAnswers(analyzer) :
             Called("analyze_sentiment", title, content, {}, answer,
                    AnalyzeSentiment(analyzer, FullText(title, content), answer))

CallCategorizeNews ==
    /\ analyzer_call = NoCall
    /\ \E title \in Titles, content \in Contents :
          \E answer \in CategoryAnswers(analyzer, title, content) :
             Called("categorize_news", title, content, {}, answer,
                    CategorizeNews(analyzer, title, content, answer))

CallAssessImpactLevel ==
    /\ analyzer_call = NoCall
    /\ \E title \in Titles, content \in Contents, mentioned_stocks \in MentionedStocks :
          Called("assess_impact_level", title, content, mentioned_stocks, NotCalled,
                 AssessImpactLevel(title, content, mentioned_stocks))

CallAnalyzeArticle ==
    /\ analyzer_call = NoCall
    /\ \E title \in Titles, content \in Contents, mentioned_stocks \in MentionedStocks :
          \E sentiment \in SentimentAnswers(analyzer),
             category \in CategoryAnswers(analyzer, title, content),
             summary \in SummaryAnswers(analyzer, content) :
             Called("analyze_article", title, content, mentioned_stocks,
                    [sentiment |-> sentiment, category |-> category, summary |-> summary],
                    AnalyzeArticleText(analyzer, title, content, mentioned_stocks,
                                       [sentiment |-> sentiment, category |-> category,
                                        summary |-> summary]))

-----------------------------------------------------------------------------
(* The promoter / FII signals of analysis/signal_analyzer.py over the      *)
(* PromoterHolding table of portfolio/models.py.  Percentages are the      *)
(* table's decimals of two places, held in hundredths; dates are days.     *)

MaxSnapshots == 4

\* a null fii_holding
NoPct == -1

QuarterEnds == {-180, -90, 0}

\* the percentages a quarter's filing carries
HoldingKinds ==
    {[promoter_holding |-> 4500, fii_holding |-> NoPct],
     [promoter_holding |-> 4750, fii_holding |-> 1000],
     [promoter_holding |-> 4800, fii_holding |-> 1200]}

HoldingRow(stock, quarter_end_date, kind) ==
    [stock |-> stock, quarter_end_date |-> quarter_end_date,
     promoter_holding |-> kind.promoter_holding, fii_holding |-> kind.fii_holding]

NoHoldingCall == [op |-> "none"]

HoldingInit == promoter_holding = {} /\ holding_call = NoHoldingCall

\* PromoterHolding.objects.update_or_create on (stock, quarter_end_date) for
\* every quarter fetched
Upserted(table, rows) ==
    {r \in table : \A n \in rows : ~(n.stock = r.stock
                                     /\ n.quarter_end_date = r.quarter_end_date)}
    \cup rows

\* _fetch_promoter_holdings: the quarters the exchange returns for a stock
\* are saved; holding_call records the one call observed on the table
FetchPromoterHoldings ==
    /\ holding_call = NoHoldingCall
    /\ \E stock \in {StockSymbols[i] : i \in 1..Len(StockSymbols)},
          quarters \in (SUBSET QuarterEnds) \ {{}} :
          \E fetched \in [quarters -> HoldingKinds] :
             /\ promoter_holding' =
                   Upserted(promoter_holding,
                            {HoldingRow(stock, q, fetched[q]) : q \in quarters})
             /\ Cardinality(promoter_holding') <= MaxSnapshots
    /\ UNCHANGED <<holding_call, engine_vars, task_vars, signal_vars, holding_advice,
                   analyzer_vars, late_vars>>

\* float(decimal): a number of hundredths as a double
PctFloat(hundredths) == FLit(hundredths, 100)

\* the first row of order_by('-quarter_end_date')
Latest(rows) == CHOOSE r \in rows : \A q \in rows : q.quarter_end_date <= r.quarter_end_date

\* order_by('-quarter_end_date')[:2] as <<latest, previous>>, <<>> when
\* there are fewer than two rows
Paired(rows, latest) == <<latest, Latest(rows \ {latest})>>

TwoLatest(rows) == IF Cardinality(rows) >= 2 THEN Paired(rows, Latest(rows)) ELSE <<>>

ConfidenceBandsStrict(ratio) ==
    IF FGt(ratio, FInt(3)) THEN 90
    ELSE IF FGt(ratio, FInt(2)) THEN 80
    ELSE IF FGt(ratio, FLit(3, 2)) THEN 70
    ELSE 60

ConfidenceBands(ratio) ==
    IF FGe(ratio, FInt(3)) THEN 90
    ELSE IF FGe(ratio, FInt(2)) THEN 80
    ELSE IF FGe(ratio, FLit(3, 2)) THEN 70
    ELSE 60

\* _calculate_confidence; the thresholds passed are whole numbers
CalculateConfidence(change, threshold) == ConfidenceBands(FDivInt(FAbs(change), threshold))

BuySignal(latest, previous, change, threshold) ==
    [stock |-> latest.stock,
     change |-> change,
     latest_date |-> latest.quarter_end_date,
     previous_date |-> previous.quarter_end_date,
     signal |-> "BUY",
     confidence |-> CalculateConfidence(change, threshold)]

IncreasedStrict(pair, change, cutoff_date, threshold) ==
    IF pair[1].quarter_end_date < cutoff_date THEN <<>>
    ELSE IF FGt(change, FInt(threshold))
    THEN <<BuySignal(pair[1], pair[2], change, threshold)>>
    ELSE <<>>

Increased(pair, change, cutoff_date, threshold) ==
    IF pair[1].quarter_end_date < cutoff_date THEN <<>>
    ELSE IF FGe(change, FInt(threshold))
    THEN <<BuySignal(pair[1], pair[2], change, threshold)>>
    ELSE <<>>

\* the body of the loop of get_promoter_increased_stocks for one stock
PromoterIncreased(rows, cutoff_date, threshold) ==
    IF Cardinality(rows) >= 2
    THEN Increased(TwoLatest(rows),
                   PctFloat(TwoLatest(rows)[1].promoter_holding
                            - TwoLatest(rows)[2].promoter_holding),
                   cutoff_date, threshold)
    ELSE <<>>

\* the body of the loop of get_fii_increased_stocks for one stock, on its
\* rows with an FII figure
FiiIncreased(rows, cutoff_date, threshold) ==
    IF Cardinality(rows) >= 2
    THEN Increased(TwoLatest(rows),
                   PctFloat(TwoLatest(rows)[1].fii_holding
                            - TwoLatest(rows)[2].fii_holding),
                   cutoff_date, threshold)
    ELSE <<>>

SellSignal(latest, previous, change, threshold) ==
    [stock |-> latest.stock,
     change |-> change,
     latest_date |-> latest.quarter_end_date,
     previous_date |-> previous.quarter_end_date,
     signal |-> "SELL",
     confidence |-> CalculateConfidence(FAbs(change), threshold),
     risk_level |-> IF FGt(FAbs(change), FInt(2)) THEN "HIGH" ELSE "MEDIUM"]

Decreased(pair, change, cutoff_date, threshold) ==
    IF pair[1].quarter_end_date < cutoff_date THEN <<>>
    ELSE IF FLe(change, FNeg(FInt(threshold)))
    THEN <<SellSignal(pair[1], pair[2], change, threshold)>>
    ELSE <<>>

\* the body of the loop of get_promoter_decreased_holdings for one holding
PromoterDecreased(rows, cutoff_date, threshold) ==
    IF Cardinality(rows) >= 2
    THEN Decreased(TwoLatest(rows),
                   PctFloat(TwoLatest(rows)[1].promoter_holding
                            - TwoLatest(rows)[2].promoter_holding),
                   cutoff_date, threshold)
    ELSE <<>>

\* sorted(results, key = ..., reverse = True): a stable sort, results of equal
\* keys stay in the order they were appended in; the key is the change for
\* the BUY lists and its magnitude for the SELL list
SortKey(result) == IF result.signal = "SELL" THEN FAbs(result.change) ELSE result.change

RECURSIVE Inserted(_, _)
Inserted(sorted, x) ==
    IF sorted = <<>> THEN <<x>>
    ELSE IF FGe(SortKey(Head(sorted)), SortKey(x))
    THEN <<Head(sorted)>> \o Inserted(Tail(sorted), x)
    ELSE <<x>> \o sorted

RECURSIVE SortedFrom(_, _, _)
SortedFrom(results, i, sorted) ==
    IF i > Len(results) THEN sorted
    ELSE SortedFrom(results, i + 1, Inserted(sorted, results[i]))

SortedResults(results) == SortedFrom(results, 1, <<>>)

StockRows(table, stock) == {r \in table : r.stock = stock}
FiiRows(table) == {r \in table : r.fii_holding # NoPct}
StocksWithData(table) == {r.stock : r \in table}

\* get_promoter_increased_stocks, the set of stock ids iterated in `order`
GetPromoterIncreasedStocks(table, order, cutoff_date, threshold) ==
    SortedResults(Concat([i \in 1..Len(order) |->
        PromoterIncreased(StockRows(table, order[i]), cutoff_date, threshold)]))

\* get_fii_increased_stocks, on the rows that carry an FII figure
GetFiiIncreasedStocks(table, order, cutoff_date, threshold) ==
    SortedResults(Concat([i \in 1..Len(order) |->
        FiiIncreased(StockRows(FiiRows(table), order[i]), cutoff_date, threshold)]))

\* get_promoter_decreased_holdings over the stocks of the portfolio's holdings
GetPromoterDecreasedHoldings(table, portfolio_holdings, cutoff_date, threshold) ==
    SortedResults(Concat([i \in 1..Len(portfolio_holdings) |->
        PromoterDecreased(StockRows(table, portfolio_holdings[i]), cutoff_date,
                          threshold)]))

\* PromoterHolding.promoter_change: the change from the first earlier row of
\* the stock in the table's ordering, 0 when there is none
ChangeFrom(row, earlier) ==
    IF earlier # {}
    THEN PctFloat(row.promoter_holding - Latest(earlier).promoter_holding)
    ELSE FZero

PromoterChange(table, row) ==
    ChangeFrom(row, {r \in table : /\ r.stock = row.stock
                                   /\ r.quarter_end_date < row.quarter_end_date})

\* the thresholds and look-back windows the callers pass
Thresholds == {1, 2}
LookBackDays == {30, 90}

SignalsReturned(op, threshold, days, stocks, result) ==
    /\ holding_call' = [op |-> op, threshold |-> threshold, days |-> days,
                        stocks |-> stocks, result |-> result]
    /\ UNCHANGED <<promoter_holding, engine_vars, task_vars, signal_vars,
                   holding_advice, analyzer_vars, late_vars>>

CallPromoterIncreased ==
    /\ holding_call = NoHoldingCall
    /\ \E threshold \in Thresholds, days \in LookBackDays :
          \E order \in Orders(StocksWithData(promoter_holding)) :
             SignalsReturned("get_promoter_increased_stocks", threshold, days, order,
                             GetPromoterIncreasedStocks(promoter_holding, order,
                                                        today - days, threshold))

CallFiiIncreased ==
    /\ holding_call = NoHoldingCall
    /\ \E threshold \in Thresholds, days \in LookBackDays :
          \E order \in Orders(StocksWithData(FiiRows(promoter_holding))) :
             SignalsReturned("get_fii_increased_stocks", threshold, days, order,
                             GetFiiIncreasedStocks(promoter_holding, order,
                                                   today - days, threshold))

\* the portfolio holds each stock at most once
CallPromoterDecreased ==
    /\ holding_call = NoHoldingCall
    /\ \E threshold \in Thresholds, days \in LookBackDays :
          \E held \in SUBSET {StockSymbols[i] : i \in 1..Len(StockSymbols)} :
             \E portfolio_holdings \in Orders(held) :
                SignalsReturned("get_promoter_decreased_holdings", threshold, days,
                                portfolio_holdings,
                                GetPromoterDecreasedHoldings(promoter_holding,
                                                             portfolio_holdings,
                                                             today - days, threshold))

CallPromoterChange ==
    /\ holding_call = NoHoldingCall
    /\ \E row \in promoter_holding :
          holding_call' = [op |-> "promoter_change", row |-> row,
                           result |-> PromoterChange(promoter_holding, row)]
    /\ UNCHANGED <<promoter_holding, engine_vars, task_vars, signal_vars,
                   holding_advice, analyzer_vars, late_vars>>

-----------------------------------------------------------------------------
\* every specification starts from the empty engine and the empty database
Init ==
    /\ EngineInit /\ TaskInit /\ SignalInit /\ AdviceInit /\ AnalyzerInit
    /\ HoldingInit /\ PortfolioInit /\ RunInit /\ ImportInit

NextEngine == CollectArticle \/ Generate
SpecEngine == Init /\ [][NextEngine]_vars

NextOrder == CollectOrdered \/ Generate \/ GenerateReordered
SpecOrder == Init /\ [][NextOrder]_vars

NextAnalysis ==
    \/ CollectAnalysisNews
    \/ NextDay
    \/ AnalyzeNewsBatch
SpecAnalysis == Init /\ [][NextAnalysis]_vars

NextTasks ==
    \/ CollectTaskNews
    \/ NextDay
    \/ AnalyzeNewsBatch
    \/ GenerateDailyRecommendations
SpecTasks == Init /\ [][NextTasks]_vars

NextLinks ==
    \/ CollectLinkNews
    \/ NextDay
    \/ AnalyzeNewsBatch
    \/ GenerateDailyRecommendations
SpecLinks == Init /\ [][NextLinks]_vars

NextRuns ==
    \/ CollectTaskNews
    \/ NextDay
    \/ AnalyzeNewsBatch
    \/ StartRun
    \/ DeactivateStep
    \/ CreateStep
    \/ UpdateSessionStep
SpecRuns == Init /\ [][NextRuns]_vars

NextAdvice == GatherHoldingData \/ AnalyzeSingleHolding
SpecAdvice == Init /\ [][NextAdvice]_vars

NextAnalyzer ==
    \/ SetupAiModels
    \/ CallAnalyzeSentiment
    \/ CallCategorizeNews
    \/ CallAssessImpactLevel
    \/ CallAnalyzeArticle
SpecAnalyzer == Init /\ [][NextAnalyzer]_vars

NextPortfolio == AddHolding \/ AnalyzePortfolio

ImportThread ==
    \/ StartImport
    \/ StartExtraction
    \/ AnalyzeImage
    \/ ExtractFromImage
    \/ ExtractHoldings
    \/ CheckResult
    \/ PreparePortfolio
    \/ ImportHolding
    \/ FetchCurrentPrices
    \/ UpdateImportedPrices
    \/ ReportSuccess
    \/ CompleteImport
    \/ FailImport
    \/ CleanUp

NextImport == AddHolding \/ ImportThread

SpecImport == Init /\ [][NextImport]_vars

\* the thread of an import, once started, keeps running
FairImport == SpecImport /\ WF_import_vars(ImportThread)
SpecPortfolio == Init /\ [][NextPortfolio]_vars

NextHoldings ==
    \/ FetchPromoterHoldings
    \/ CallPromoterIncreased
    \/ CallFiiIncreased
    \/ CallPromoterDecreased
    \/ CallPromoterChange
SpecHoldings == Init /\ [][NextHoldings]_vars

NextSignals ==
    \/ CollectSignalNews
    \/ NextDay
    \/ AnalyzeNewsBatch
    \/ UpdateStockPrices
    \/ FetchCorporateActions
    \/ GenerateAllEntrySignals
SpecSignals == Init /\ [][NextSignals]_vars

NextDips ==
    \/ CollectDipNews
    \/ NextDay
    \/ AnalyzeNewsBatch
    \/ UpdateStockPrices
    \/ CallDetectPriceDips

SpecDips == Init /\ [][NextDips]_vars

NextDetectors ==
    \/ CollectSignalNews
    \/ NextDay
    \/ AnalyzeSignalNews
    \/ GenerateAllEntrySignals
    \/ CallDetectNewOrders
    \/ CallDetectExpansionNews

SpecDetectors == Init /\ [][NextDetectors]_vars

-----------------------------------------------------------------------------
(* Properties of the recommendation engine                                 *)

Returned == engine_pc = "returned"
Recs == engine_output.recommendations

\* the recommendations an outcome holds for a stock
RecsOf(outcome, stock) ==
    {outcome.recommendations[i] : i \in
        {j \in 1..Len(outcome.recommendations) :
            outcome.recommendations[j].stock_symbol = stock}}

Symbols == {StockSymbols[i] : i \in 1..Len(StockSymbols)}

Mentioning(stock) == SelectSeq(engine_input, LAMBDA a : stock \in a.mentioned_stocks)

\* C5: every net_sentiment_score returned is in [-1, 1] and every
\* confidence_level in [0, 100], whatever the sentiment scores of the input
C5_ScoresInRange ==
    Returned =>
        \A i \in 1..Len(Recs) :
            /\ FGe(Recs[i].net_sentiment_score, FInt(-1))
            /\ FLe(Recs[i].net_sentiment_score, FInt(1))
            /\ FGe(Recs[i].confidence_level, FZero)
            /\ FLe(Recs[i].confidence_level, FInt(100))

\* the analysis of a stock fails when a POSITIVE or NEGATIVE article of its
\* list has no sentiment_score to multiply
AnalysisFails(articles) ==
    \E i \in 1..Len(articles) :
        /\ articles[i].sentiment \in {"POSITIVE", "NEGATIVE"}
        /\ IsNone(articles[i].sentiment_score)

\* C6: generate_stock_recommendations never raises; a stock without articles
\* or whose analysis fails contributes no recommendation, and every other
\* stock's recommendation is returned
C6_NeverRaises ==
    Returned =>
        /\ ~engine_output.raised
        /\ \A s \in Symbols :
              IF Mentioning(s) = <<>> \/ AnalysisFails(Mentioning(s))
              THEN RecsOf(engine_output, s) = {}
              ELSE Cardinality(RecsOf(engine_output, s)) = 1

\* the analysis of TCS failed and the recommendation of INFY was returned
C6_Witness ==
    /\ Returned
    /\ AnalysisFails(Mentioning("TCS"))
    /\ RecsOf(engine_output, "TCS") = {}
    /\ RecsOf(engine_output, "INFY") # {}

Decision(r) == <<r.recommendation, r.confidence_level, r.reasoning>>

\* C7: a second call on the same articles in another order returns for each
\* stock the same action, confidence and reasoning
C7_OrderIndependent ==
    engine_pc = "reordered" =>
        \A s \in Symbols :
            {Decision(r) : r \in RecsOf(engine_output, s)}
                = {Decision(r) : r \in RecsOf(engine_reordered, s)}

ClaimWeight(a) ==
    CASE a.impact_level = "HIGH" -> 3
      [] a.impact_level = "MEDIUM" -> 2
      [] OTHER -> 1

\* sum of weight over the articles, and the float sum of weight * score in
\* list order
RECURSIVE WeightSum(_)
WeightSum(articles) ==
    IF articles = <<>> THEN 0
    ELSE ClaimWeight(Head(articles)) + WeightSum(Tail(articles))

RECURSIVE ScoreSum(_, _)
ScoreSum(articles, n) ==
    IF n = 0 THEN FZero
    ELSE FAdd(ScoreSum(articles, n - 1),
              FMulInt(articles[n].sentiment_score, ClaimWeight(articles[n])))

WeightedScores(articles, sentiment) ==
    LET sel == SelectSeq(articles, LAMBDA a : a.sentiment = sentiment)
    IN ScoreSum(sel, Len(sel))

\* C8: the net sentiment of a stock is (weighted POSITIVE scores - weighted
\* NEGATIVE scores) / (sum of the weights of all articles mentioning it),
\* weights 3 / 2 / 1 for HIGH / MEDIUM / LOW
C8_NetSentimentFormula ==
    Returned =>
        \A i \in 1..Len(Recs) :
            LET mine == Mentioning(Recs[i].stock_symbol)
            IN Recs[i].net_sentiment_score =
                   FDivInt(FSub(WeightedScores(mine, "POSITIVE"),
                                WeightedScores(mine, "NEGATIVE")),
                           WeightSum(mine))

\* INFY is recommended from a NEUTRAL article alone while a POSITIVE article
\* of another impact level mentions only TCS
C8_Witness ==
    /\ Returned
    /\ Len(engine_input) = 2
    /\ engine_input[1].mentioned_stocks = {"TCS"}
    /\ engine_input[1].sentiment = "POSITIVE"
    /\ engine_input[1].impact_level = "HIGH"
    /\ engine_input[2].mentioned_stocks = {"INFY", "TCS"}
    /\ engine_input[2].sentiment = "NEUTRAL"
    /\ engine_input[2].impact_level = "MEDIUM"
    /\ Cardinality(RecsOf(engine_output, "INFY")) = 1
    /\ Cardinality(RecsOf(engine_output, "TCS")) = 1

Band(net) ==
    {b \in {"BUY", "WATCH", "HOLD", "SELL"} :
        \/ b = "BUY" /\ FGt(net, FLit(6, 10))
        \/ b = "WATCH" /\ FGt(net, FLit(3, 10)) /\ FLe(net, FLit(6, 10))
        \/ b = "HOLD" /\ FGe(net, FNeg(FLit(3, 10))) /\ FLe(net, FLit(3, 10))
        \/ b = "SELL" /\ FLt(net, FNeg(FLit(3, 10)))}

\* C9: net > 0.6 is BUY, 0.3 < net <= 0.6 WATCH, -0.3 <= net <= 0.3 HOLD,
\* net < -0.3 SELL, exactly one band for every net; risk is LOW above 0.7,
\* HIGH for SELL and MEDIUM otherwise
C9_ActionBands ==
    Returned =>
        \A i \in 1..Len(Recs) :
            LET net == Recs[i].net_sentiment_score
            IN /\ Band(net) = {Recs[i].recommendation}
               /\ Recs[i].risk_level =
                     IF FGt(net, FLit(7, 10)) THEN "LOW"
                     ELSE IF Recs[i].recommendation = "SELL" THEN "HIGH"
                     ELSE "MEDIUM"

\* a WATCH at the breakpoint itself: net is exactly 0.6
C9_Witness ==
    /\ Returned
    /\ \E i \in 1..Len(Recs) :
          /\ Recs[i].net_sentiment_score = FLit(6, 10)
          /\ Recs[i].recommendation = "WATCH"
          /\ Recs[i].risk_level = "MEDIUM"

ClaimConfidence(net) ==
    IF FGt(net, FLit(3, 10))
    THEN FMin(FAdd(FInt(80), FMulInt(net, 20)), FInt(95))
    ELSE IF FLt(net, FNeg(FLit(3, 10)))
    THEN FMin(FAdd(FInt(70), FMulInt(FAbs(net), 20)), FInt(90))
    ELSE FAdd(FInt(40), FMulInt(FAbs(net), 20))

\* the example of the specification: two POSITIVE articles about TCS
IsSpecExample ==
    /\ Len(engine_input) = 2
    /\ \A i \in 1..2 : /\ engine_input[i].sentiment = "POSITIVE"
                       /\ engine_input[i].mentioned_stocks = {"TCS"}
    /\ engine_input[1].sentiment_score = FLit(8, 10)
    /\ engine_input[1].impact_level = "HIGH"
    /\ engine_input[2].sentiment_score = FLit(6, 10)
    /\ engine_input[2].impact_level = "MEDIUM"

\* one unit in the last place of a value in [0.5, 1)
Ulp == [sgn |-> 1, man |-> NatShl(<<1>>, MantBits - 1), exp |-> -(2 * MantBits - 1)]

\* C10: the confidence is min(80 + 20 net, 95) above 0.3, min(70 + 20 |net|, 90)
\* below -0.3 and 40 + 20 |net| otherwise; the example gives net 0.72 (to the
\* last place of a double), BUY, LOW and confidence 94.4
C10_ConfidenceFormula ==
    Returned =>
        /\ \A i \in 1..Len(Recs) :
              Recs[i].confidence_level = ClaimConfidence(Recs[i].net_sentiment_score)
        /\ IsSpecExample =>
              /\ Len(Recs) = 1
              /\ Recs[1].stock_symbol = "TCS"
              /\ FLe(FAbs(FSub(Recs[1].net_sentiment_score, FLit(72, 100))), Ulp)
              /\ Recs[1].recommendation = "BUY"
              /\ Recs[1].risk_level = "LOW"
              /\ Recs[1].confidence_level = FLit(944, 10)

C10_Witness == Returned /\ IsSpecExample /\ Len(Recs) = 1

-----------------------------------------------------------------------------
(* Properties of the tasks, checked under SpecTasks and SpecAnalysis *)

ActiveRecommendations(stock) ==
    {i \in 1..Len(recommendation) :
        recommendation[i].stock = stock /\ recommendation[i].is_active}

RecommendedStocks == {recommendation[i].stock : i \in 1..Len(recommendation)}

\* C1: between runs of generate_daily_recommendations every stock has at most
\* one active Recommendation: a new one deactivates those before it
C1_OneActivePerStock ==
    \A stock \in RecommendedStocks :
        Cardinality(ActiveRecommendations(stock)) <= 1

\* a stock whose earlier recommendation was superseded by a later one
C1_Witness ==
    \E i, j \in 1..Len(recommendation) :
        /\ i < j
        /\ recommendation[i].stock = recommendation[j].stock
        /\ ~recommendation[i].is_active
        /\ recommendation[j].is_active

AnalysisFields(row) ==
    <<row.sentiment, row.sentiment_score, row.impact_level,
      row.confidence_score, row.category, row.is_analyzed>>

\* C4: an article that is analyzed is not selected by analyze_news_batch
\* again, and no step rewrites its sentiment, sentiment_score, impact_level,
\* confidence_score or category or takes is_analyzed back to false
C4_AnalyzedOnce ==
    [][/\ \A id \in UnanalyzedArticles(news_article, today) :
              ~news_article[id].is_analyzed
       /\ \A id \in 1..Len(news_article) :
              news_article[id].is_analyzed =>
                  AnalysisFields(news_article'[id]) = AnalysisFields(news_article[id])]_vars

\* a batch has analyzed one of today's articles and the next batch finds
\* another one of today still to analyze
C4_Witness ==
    \E i \in AnalyzedArticles(news_article, today) :
    \E j \in UnanalyzedArticles(news_article, today) :
        /\ i < j
        /\ market_session[today].analysis_completed

-----------------------------------------------------------------------------
(* Properties of the entry signals, checked under SpecSignals *)

ActiveSignals(table, stock, opportunity_type) ==
    Cardinality({i \in 1..Len(table) :
        /\ table[i].stock = stock
        /\ table[i].opportunity_type = opportunity_type
        /\ table[i].is_active})

\* C2: a second run of generate_all_entry_signals on the same day over the
\* same stocks, articles and corporate actions adds no active
\* EntryOpportunity for a (stock, opportunity_type) pair the first run
\* emitted, whichever of the six detectors emitted it
C2_SecondRunEmitsNothing ==
    [][(signal_run.status = "returned" /\ signal_run'.status = "returned") =>
          \A pair \in signal_run.emitted :
              ActiveSignals(entry_opportunity', pair[1], pair[2])
                  <= ActiveSignals(entry_opportunity, pair[1], pair[2])]_vars

Expired(opp, day) == opp.expires_at # NoDate /\ opp.expires_at < day

\* C3: after a run of generate_all_entry_signals, whether it returned or a
\* detector or a save failed, no EntryOpportunity is both active and expired
C3_SweptAfterEveryRun ==
    signal_run.status # "idle" =>
        \A i \in 1..Len(entry_opportunity) :
            ~(entry_opportunity[i].is_active /\ Expired(entry_opportunity[i], today))

-----------------------------------------------------------------------------
(* Properties of the holding scorer, checked under SpecAdvice *)

Advised == holding_advice.stage = "advised"

\* C11: the advice is BUY exactly when buy_score > sell_score and
\* buy_score >= 4, SELL exactly when sell_score > buy_score and
\* sell_score >= 4, HOLD otherwise; the confidence is min(15 * winning
\* score, 90) for BUY and SELL and 60 for HOLD
C11_HoldingDecision ==
    Advised =>
        LET r == holding_advice.ai_recommendation
        IN /\ r.action = "BUY" <=> (r.buy_score > r.sell_score /\ r.buy_score >= 4)
           /\ r.action = "SELL" <=> (r.sell_score > r.buy_score /\ r.sell_score >= 4)
           /\ r.action = "HOLD" <=>
                 ~(r.buy_score > r.sell_score /\ r.buy_score >= 4)
                 /\ ~(r.sell_score > r.buy_score /\ r.sell_score >= 4)
           /\ r.action = "BUY" => r.confidence = MinInt(15 * r.buy_score, 90)
           /\ r.action = "SELL" => r.confidence = MinInt(15 * r.sell_score, 90)
           /\ r.action = "HOLD" => r.confidence = 60

\* a tie at 4 : 4 is a HOLD at confidence 60
C11_Witness ==
    /\ Advised
    /\ holding_advice.ai_recommendation.buy_score = 4
    /\ holding_advice.ai_recommendation.sell_score = 4
    /\ holding_advice.ai_recommendation.action = "HOLD"
    /\ holding_advice.ai_recommendation.confidence = 60

-----------------------------------------------------------------------------
(* Properties of the classifiers, checked under SpecAnalyzer *)

Returns(op) == analyzer_call.op = op

CallText == Lower(FullText(analyzer_call.title, analyzer_call.content))

\* the keywords of a list that occur in a text
Found(words, text) == {w \in {words[i] : i \in 1..Len(words)} : In(w, text)}

\* analyze_sentiment came to the rules: no model and no client, or the
\* local model raised
RulesPath ==
    /\ Returns("analyze_sentiment")
    /\ \/ analyzer = NoModels
       \/ analyzer.sentiment_analyzer /\ analyzer_call.answers.raised

SentimentAsClaimed(r, p, n) ==
    /\ p > n => /\ r.label = "POSITIVE"
                /\ r.confidence = FMin(FDivInt(FInt(p), p + n + 1), FLit(8, 10))
    /\ n > p => /\ r.label = "NEGATIVE"
                /\ r.confidence = FMin(FDivInt(FInt(n), p + n + 1), FLit(8, 10))
    /\ p = n => r.label = "NEUTRAL" /\ r.confidence = FLit(5, 10)
    /\ p # n => FGt(r.confidence, FZero) /\ FLe(r.confidence, FLit(8, 10))

\* C12: with p positive and n negative keywords found in the lower-cased
\* text the rules return POSITIVE at min(p/(p+n+1), 0.8) when p > n,
\* NEGATIVE at min(n/(p+n+1), 0.8) when n > p, NEUTRAL at 0.5 when p = n,
\* and a non-neutral confidence is in (0, 0.8]
C12_RulesSentiment ==
    RulesPath =>
        SentimentAsClaimed(analyzer_call.result,
                           Cardinality(Found(positive_words, CallText)),
                           Cardinality(Found(negative_words, CallText)))

\* the local model raised on a text of five positive keywords: the cap bites
C12_Witness ==
    /\ RulesPath
    /\ analyzer.sentiment_analyzer
    /\ Cardinality(Found(positive_words, CallText)) = 5
    /\ Cardinality(Found(negative_words, CallText)) = 0
    /\ analyzer_call.result = Classified("POSITIVE", FLit(8, 10))

\* C13: analyze_sentiment returns POSITIVE, NEGATIVE or NEUTRAL on every
\* path, whatever the model or the service answers
C13_ThreeValued ==
    Returns("analyze_sentiment") =>
        analyzer_call.result.label \in {"POSITIVE", "NEGATIVE", "NEUTRAL"}

\* the highest ratio hits / table size over the categories, as a pair
\* <<hits, size>>; ratios are compared exactly
Ratios(text) ==
    {<<Cardinality(Found(category_keywords[i].keywords, text)),
       Len(category_keywords[i].keywords)>> : i \in 1..Len(category_keywords)}

IsHighest(r, ratios) == \A q \in ratios : q[1] * r[2] <= r[1] * q[2]

CategoryRatio(name, text) ==
    LET i == CHOOSE j \in 1..Len(category_keywords) : category_keywords[j].name = name
    IN <<Cardinality(Found(category_keywords[i].keywords, text)),
         Len(category_keywords[i].keywords)>>

CategoryAsClaimed(r, text, ratios) ==
    /\ FGe(r.confidence, FZero)
    /\ FLe(r.confidence, FInt(1))
    /\ (\A q \in ratios : q[1] = 0) => r.label = "OTHER"
    /\ (\E q \in ratios : q[1] > 0) =>
          /\ r.label \in {category_keywords[i].name : i \in 1..Len(category_keywords)}
          /\ IsHighest(CategoryRatio(r.label, text), ratios)
          /\ r.confidence =
                FMin(FMulInt(FDivInt(FInt(CategoryRatio(r.label, text)[1]),
                                     CategoryRatio(r.label, text)[2]), 2),
                     FInt(1))

\* C14: categorize_news returns a confidence in [0, 1], OTHER when no
\* keyword of any table occurs, and otherwise the category of the highest
\* ratio hits / table size at confidence min(2 * ratio, 1.0)
C14_Category ==
    Returns("categorize_news") =>
        CategoryAsClaimed(analyzer_call.result, CallText, Ratios(CallText))

ClaimedScore(text, mentioned_stocks) ==
    3 * Cardinality(Found(high_impact_keywords, text))
    + Cardinality(Found(medium_impact_keywords, text))
    + (IF \E s \in {"RELIANCE", "TCS", "HDFCBANK", "INFY", "ITC"} : s \in mentioned_stocks
       THEN 2 ELSE 0)
    + (IF Cardinality(mentioned_stocks) > 3 THEN 1 ELSE 0)

ImpactAsClaimed(r, score) ==
    /\ score >= 5 =>
          r = Classified("HIGH", FMin(FDivInt(FInt(score), 10), FInt(1)))
    /\ (2 <= score /\ score < 5) =>
          r = Classified("MEDIUM", FMin(FDivInt(FInt(score), 7), FInt(1)))
    /\ score < 2 =>
          r = Classified("LOW", FMax(FDivInt(FInt(score), 5), FLit(2, 10)))

\* C15: the impact score is 3 per high-impact keyword present, 1 per
\* medium-impact keyword present, 2 for a major stock among the mentioned
\* ones and 1 for more than 3 mentioned stocks; HIGH at min(score/10, 1)
\* from 5, MEDIUM at min(score/7, 1) from 2, LOW at max(score/5, 0.2) below
C15_ImpactFormula ==
    Returns("assess_impact_level") =>
        ImpactAsClaimed(analyzer_call.result,
                        ClaimedScore(CallText, analyzer_call.mentioned_stocks))

\* a HIGH at the cap: four high-impact keywords, a major stock and more
\* than 3 stocks mentioned
C15_Witness ==
    /\ Returns("assess_impact_level")
    /\ Cardinality(Found(high_impact_keywords, CallText)) = 4
    /\ Cardinality(Found(medium_impact_keywords, CallText)) = 2
    /\ analyzer_call.mentioned_stocks = {"TCS", "WIPRO", "SBIN", "LT"}
    /\ analyzer_call.result = Classified("HIGH", FInt(1))

Rank(level) == CASE level = "LOW" -> 1 [] level = "MEDIUM" -> 2 [] level = "HIGH" -> 3

\* an article like the assessed one but for its high-impact keyword hits:
\* the same medium-impact hits, the same mentioned stocks
MoreHighHits(title, content) ==
    /\ Cardinality(Found(medium_impact_keywords, Lower(FullText(title, content))))
          = Cardinality(Found(medium_impact_keywords, CallText))
    /\ Cardinality(Found(high_impact_keywords, Lower(FullText(title, content))))
          > Cardinality(Found(high_impact_keywords, CallText))

\* C16: an article with more high-impact keyword hits and everything else
\* unchanged has no lower impact score and no lower impact level
C16_MonotonicImpact ==
    Returns("assess_impact_level") =>
        \A title \in Titles, content \in Contents :
            MoreHighHits(title, content) =>
                /\ ImpactScore(Lower(FullText(title, content)),
                               analyzer_call.mentioned_stocks)
                      >= ImpactScore(CallText, analyzer_call.mentioned_stocks)
                /\ Rank(AssessImpactLevel(title, content,
                                          analyzer_call.mentioned_stocks).label)
                      >= Rank(analyzer_call.result.label)

\* a HIGH of one high-impact hit is assessed while an article of four such
\* hits and the same medium-impact hits exists
C16_Witness ==
    /\ Returns("assess_impact_level")
    /\ analyzer_call.result.label = "HIGH"
    /\ Cardinality(Found(high_impact_keywords, CallText)) = 1
    /\ \E title \in Titles, content \in Contents :
          /\ MoreHighHits(title, content)
          /\ Cardinality(Found(high_impact_keywords,
                               Lower(FullText(title, content)))) = 4

\* C17: for an empty title and an empty content analyze_article returns
\* NEUTRAL at 0.5, OTHER at 0.5 and LOW at 0.2, whatever stocks are mentioned
C17_EmptyDefaults ==
    (/\ Returns("analyze_article")
     /\ analyzer_call.title = ""
     /\ analyzer_call.content = "") =>
        /\ analyzer_call.result.sentiment = "NEUTRAL"
        /\ analyzer_call.result.sentiment_score = FLit(5, 10)
        /\ analyzer_call.result.category = "OTHER"
        /\ analyzer_call.result.category_confidence = FLit(5, 10)
        /\ analyzer_call.result.impact_level = "LOW"
        /\ analyzer_call.result.impact_confidence = FLit(2, 10)

-----------------------------------------------------------------------------
(* The promoter / FII signals.  The claims are stated on the table's       *)
(* hundredths, the code computes on doubles.                               *)

BuyOps == {"get_promoter_increased_stocks", "get_fii_increased_stocks"}
SignalOps == BuyOps \cup {"get_promoter_decreased_holdings"}
SignalsCalled == holding_call.op \in SignalOps

\* the snapshots of a stock the called function reads, and the figure it
\* compares
Snapshots(stock) ==
    {r \in promoter_holding :
        /\ r.stock = stock
        /\ holding_call.op = "get_fii_increased_stocks" => r.fii_holding # NoPct}
Figure(r) ==
    IF holding_call.op = "get_fii_increased_stocks" THEN r.fii_holding
    ELSE r.promoter_holding

\* l and p are the two most recent snapshots of the stock
MostRecent(stock, l, p) ==
    /\ l \in Snapshots(stock)
    /\ p \in Snapshots(stock)
    /\ p.quarter_end_date < l.quarter_end_date
    /\ \A q \in Snapshots(stock) \ {l} : q.quarter_end_date <= p.quarter_end_date

\* the comparison of the claim, in hundredths of a percent
Crossed(l, p) ==
    IF holding_call.op \in BuyOps
    THEN Figure(l) - Figure(p) >= 100 * holding_call.threshold
    ELSE Figure(p) - Figure(l) >= 100 * holding_call.threshold

\* the stocks the called function looks at
Examined ==
    IF holding_call.op \in BuyOps
    THEN {StockSymbols[i] : i \in 1..Len(StockSymbols)}
    ELSE {holding_call.stocks[i] : i \in 1..Len(holding_call.stocks)}

SignalsOf(stock) ==
    {i \in 1..Len(holding_call.result) : holding_call.result[i].stock = stock}

SortedDescending ==
    \A i, j \in 1..Len(holding_call.result) :
       i < j => FGe(FAbs(holding_call.result[i].change),
                    FAbs(holding_call.result[j].change))

SignalKind == IF holding_call.op \in BuyOps THEN "BUY" ELSE "SELL"

\* C18 as stated: every examined stock of at least two snapshots has a
\* signal exactly when the change between its two most recent snapshots
\* reaches the threshold, and the result list is sorted by descending
\* magnitude of change
C18_SignalExactlyOnThreshold ==
    SignalsCalled =>
       /\ \A stock \in Examined, l, p \in promoter_holding :
             MostRecent(stock, l, p) =>
                (SignalsOf(stock) # {} <=> Crossed(l, p))
       /\ \A i \in 1..Len(holding_call.result) :
             holding_call.result[i].signal = SignalKind
       /\ SortedDescending

\* C18: every examined stock of at least two snapshots has a signal
\* exactly when its most recent snapshot lies inside the look-back window
\* (quarter_end_date >= today - days) and the change between its two most
\* recent snapshots (those carrying an FII figure, for the FII signal)
\* reaches the threshold; the signal carries that change, no other stock
\* has a signal, and the list is sorted by descending magnitude of change
C18_SignalInsideWindow ==
    SignalsCalled =>
       /\ \A stock \in Examined, l, p \in promoter_holding :
             MostRecent(stock, l, p) =>
                /\ SignalsOf(stock) # {} <=>
                      /\ l.quarter_end_date >= today - holding_call.days
                      /\ Crossed(l, p)
                /\ \A i \in SignalsOf(stock) :
                      /\ holding_call.result[i].change
                            = PctFloat(Figure(l) - Figure(p))
                      /\ holding_call.result[i].latest_date = l.quarter_end_date
                      /\ holding_call.result[i].previous_date = p.quarter_end_date
       /\ \A i \in 1..Len(holding_call.result) :
             /\ holding_call.result[i].signal = SignalKind
             /\ holding_call.result[i].stock \in Examined
             /\ Cardinality(Snapshots(holding_call.result[i].stock)) >= 2
       /\ SortedDescending

\* two BUY signals of different changes come back in the reverse of the
\* order the stocks were examined in
C18_Witness ==
    /\ holding_call.op = "get_promoter_increased_stocks"
    /\ Len(holding_call.result) = 2
    /\ holding_call.result[1].stock = holding_call.stocks[2]
    /\ holding_call.result[1].change # holding_call.result[2].change

\* C19: the confidence of every signal is 90 when |change| / threshold >= 3,
\* 80 when it is in [2, 3), 70 when it is in [1.5, 2) and 60 otherwise; a
\* promoter holding moving from 45.0% to 47.5% inside the window at
\* threshold 1 yields a BUY signal of confidence 80
Banded(magnitude, threshold) ==
    IF magnitude >= 300 * threshold THEN 90
    ELSE IF magnitude >= 200 * threshold THEN 80
    ELSE IF 2 * magnitude >= 300 * threshold THEN 70
    ELSE 60

Magnitude(l, p) ==
    IF Figure(l) >= Figure(p) THEN Figure(l) - Figure(p) ELSE Figure(p) - Figure(l)

ExampleMove(stock, l, p) ==
    /\ holding_call.op = "get_promoter_increased_stocks"
    /\ holding_call.threshold = 1
    /\ MostRecent(stock, l, p)
    /\ l.quarter_end_date >= today - holding_call.days
    /\ p.promoter_holding = 4500
    /\ l.promoter_holding = 4750

C20_NoChangeWithoutPrevious ==
    /\ SignalsCalled =>
          \A stock \in Examined :
             Cardinality(Snapshots(stock)) < 2 => SignalsOf(stock) = {}
    /\ (/\ holding_call.op = "promoter_change"
        /\ Cardinality(StockRows(promoter_holding, holding_call.row.stock)) < 2) =>
          IsNone(holding_call.result)

-----------------------------------------------------------------------------
(* The unrealized-P&L sub-score of the holding scorer.                     *)

\* the scores after the sentiment, technical and valuation sub-scores
ScoresBeforePnl ==
    ValuationScores(MomentumScores(TrendScores(NewsScores(holding_advice.sentiment_score),
                                               holding_advice.technical_signals),
                                   holding_advice.technical_signals),
                    holding_advice.valuation_status)

BuyPoints == holding_advice.ai_recommendation.buy_score - ScoresBeforePnl[1]
SellPoints == holding_advice.ai_recommendation.sell_score - ScoresBeforePnl[2]

GainOver20 == FGt(holding_advice.pnl_percentage, FInt(20))
LossOver10 == FLt(holding_advice.pnl_percentage, FInt(-10))

\* C26 as stated: above a gain of 20% one point goes to sell_score; below
\* a loss of 10% one point goes to the score that leads, buy_score or
\* sell_score; otherwise no point is added
C26_PnlPointToLeader ==
    Advised =>
       /\ GainOver20 => BuyPoints = 0 /\ SellPoints = 1
       /\ LossOver10 =>
             \/ /\ ScoresBeforePnl[1] > ScoresBeforePnl[2]
                /\ BuyPoints = 1 /\ SellPoints = 0
             \/ /\ ScoresBeforePnl[2] > ScoresBeforePnl[1]
                /\ BuyPoints = 0 /\ SellPoints = 1
       /\ (~GainOver20 /\ ~LossOver10) => BuyPoints = 0 /\ SellPoints = 0

\* C26: above a gain of 20% one point goes to sell_score; below a loss of
\* 10% one point goes to buy_score when buy_score leads and to sell_score
\* when sell_score leads or the two are equal; otherwise no point is added
C26_PnlPoint ==
    Advised =>
       /\ GainOver20 => BuyPoints = 0 /\ SellPoints = 1
       /\ LossOver10 =>
             IF ScoresBeforePnl[1] > ScoresBeforePnl[2]
             THEN BuyPoints = 1 /\ SellPoints = 0
             ELSE BuyPoints = 0 /\ SellPoints = 1
       /\ (~GainOver20 /\ ~LossOver10) => BuyPoints = 0 /\ SellPoints = 0

\* a holding 15% under water whose scores stand 2 : 2 gets its point on
\* sell_score
C26_Witness ==
    /\ Advised
    /\ LossOver10
    /\ ScoresBeforePnl = <<2, 2>>
    /\ holding_advice.ai_recommendation.sell_score = 3

-----------------------------------------------------------------------------
(* analyze_portfolio: safe defaults instead of exceptions.                 *)

PortfolioAnalysed == portfolio_call.op = "analyze_portfolio"

\* the analyses of the i-th holding among the results
AnalysesOf(i) ==
    {k \in 1..Len(portfolio_call.results.holdings_analysis) :
        portfolio_call.results.holdings_analysis[k].stock_symbol
            = portfolio_holding[i].stock}

NoCloseList(price_data) == ~price_data.fetched \/ price_data.close = <<>>
AllNull(price_data) ==
    /\ price_data.close # <<>>
    /\ \A k \in 1..Len(price_data.close) : IsNone(price_data.close[k])
FewCloses(price_data) ==
    Cardinality({k \in 1..Len(price_data.close) : ~IsNone(price_data.close[k])}) < 20

\* C21: every holding passed to analyze_portfolio appears in
\* holdings_analysis, with trend UNKNOWN or INSUFFICIENT_DATA when there is
\* no close list, only null closes or fewer than 20 closes, and with
\* valuation UNKNOWN when there is no close list, only null closes or no
\* current price
C21_EveryHoldingAnalysed ==
    PortfolioAnalysed =>
       /\ Len(portfolio_call.results.holdings_analysis) = Len(portfolio_holding)
       /\ \A i \in 1..Len(portfolio_holding) :
             /\ AnalysesOf(i) # {}
             /\ \A k \in AnalysesOf(i) :
                   /\ (\/ NoCloseList(portfolio_call.fetched[i].price_data)
                       \/ FewCloses(portfolio_call.fetched[i].price_data)) =>
                         portfolio_call.results.holdings_analysis[k]
                             .technical_signals.trend
                                \in {"UNKNOWN", "INSUFFICIENT_DATA"}
                   /\ (\/ NoCloseList(portfolio_call.fetched[i].price_data)
                       \/ AllNull(portfolio_call.fetched[i].price_data)
                       \/ IsNone(portfolio_holding[i].current_price)) =>
                         portfolio_call.results.holdings_analysis[k]
                             .valuation_status = "UNKNOWN"

DipsCalled == signal_run.status = "detect_price_dips"

\* the stocks whose price is set and was updated inside the lookback
RecentlyPriced(days_lookback) ==
    {s \in DOMAIN stock_price :
        /\ stock_price[s].current_price
        /\ stock_price[s].price_updated_at >= today - days_lookback}

\* the NEGATIVE articles about a stock inside the lookback window
NegativeInWindow(s, days_lookback) ==
    {id \in 1..Len(news_article) :
        /\ s \in news_article[id].mentioned_stocks
        /\ news_article[id].sentiment = "NEGATIVE"
        /\ news_article[id].published_at >= today - days_lookback}

\* min(2.5 * count, 10) in tenths of a percent
Estimate(count) == IF 25 * count <= 100 THEN 25 * count ELSE 100

DipsOf(s) ==
    {i \in 1..Len(signal_run.opportunities) :
        signal_run.opportunities[i].stock = s}

DetectorCalled ==
    signal_run.status \in {"detect_new_orders", "detect_expansion_news"}

\* the stored signals of a type for a stock dated within the last 7 days
StoredInsideWindow(s, opportunity_type) ==
    {i \in 1..Len(entry_opportunity) :
        /\ entry_opportunity[i].stock = s
        /\ entry_opportunity[i].opportunity_type = opportunity_type
        /\ entry_opportunity[i].signal_date >= today - 7}

EmittedFor(s) ==
    {i \in 1..Len(signal_run.opportunities) :
        signal_run.opportunities[i].stock = s}

\* the word list of the detector that was called
KeywordOf(opportunity_type) ==
    IF opportunity_type = "ORDER_WIN" THEN "order" ELSE "expansion"

\* the articles about a stock inside the 30 days of the detectors, with one
\* of the sentiments and a keyword of the detector
Matching(s, sentiments, opportunity_type) ==
    {id \in 1..Len(news_article) :
        /\ s \in news_article[id].mentioned_stocks
        /\ news_article[id].published_at >= today - 30
        /\ news_article[id].sentiment \in sentiments
        /\ KeywordOf(opportunity_type) \in news_article[id].keywords}

\* C24: detect_new_orders and detect_expansion_news emit no opportunity for
\* a stock that has a stored signal of the same type dated within the last
\* 7 days
C24_NoRepeatInsideWindow ==
    DetectorCalled =>
        \A s \in DOMAIN stock_price :
            StoredInsideWindow(s, signal_run.opportunity_type) # {}
                => EmittedFor(s) = {}

\* detect_new_orders finds an article it would report, but an ORDER_WIN
\* signal for its stock was stored the day before
C24_Witness ==
    /\ signal_run.status = "detect_new_orders"
    /\ Matching("TCS", {"POSITIVE", "NEUTRAL"}, "ORDER_WIN") # {}
    /\ \E i \in StoredInsideWindow("TCS", "ORDER_WIN") :
          entry_opportunity[i].signal_date = today - 1
    /\ signal_run.opportunities = <<>>

\* C25 as stated: both detectors report every POSITIVE or NEUTRAL article
\* inside the lookback window with one of their keywords, once for each
\* stock it mentions, unless the de-duplication suppresses it; a NEGATIVE
\* article is never reported
C25_PositiveOrNeutral ==
    DetectorCalled =>
        \A s \in DOMAIN stock_price :
            StoredInsideWindow(s, signal_run.opportunity_type) = {}
                => Cardinality(EmittedFor(s)) =
                      Cardinality(Matching(s, {"POSITIVE", "NEUTRAL"},
                                           signal_run.opportunity_type))

\* the articles the expansion detector selects: POSITIVE, and of one of the
\* categories MERGER, SECTOR and EARNINGS
ExpansionMatching(s) ==
    {id \in Matching(s, {"POSITIVE"}, "EXPANSION") :
        news_article[id].category \in {"MERGER", "SECTOR", "EARNINGS"}}

\* C25: the order-win detector reports every POSITIVE or NEUTRAL article
\* inside the lookback window with one of its keywords, the expansion
\* detector every POSITIVE article of category MERGER, SECTOR or EARNINGS
\* with one of its keywords, once for each stock the article mentions,
\* unless the de-duplication suppresses it; a NEGATIVE article is never
\* reported
C25_DetectorFilters ==
    DetectorCalled =>
        \A s \in DOMAIN stock_price :
            StoredInsideWindow(s, signal_run.opportunity_type) = {}
                => Cardinality(EmittedFor(s)) =
                      Cardinality(IF signal_run.opportunity_type = "ORDER_WIN"
                                  THEN Matching(s, {"POSITIVE", "NEUTRAL"},
                                                "ORDER_WIN")
                                  ELSE ExpansionMatching(s))

\* detect_new_orders reports a NEUTRAL article and passes over a NEGATIVE one
C25_Witness ==
    /\ signal_run.status = "detect_new_orders"
    /\ Matching("TCS", {"NEUTRAL"}, "ORDER_WIN") # {}
    /\ Matching("TCS", {"NEGATIVE"}, "ORDER_WIN") # {}
    /\ Matching("TCS", {"POSITIVE"}, "ORDER_WIN") = {}
    /\ Len(signal_run.opportunities) = 1

\* the rows a run of generate_all_entry_signals added to the table
NewRows(s, opportunity_type) ==
    {i \in (Len(entry_opportunity) + 1)..Len(entry_opportunity') :
        /\ entry_opportunity'[i].stock = s
        /\ entry_opportunity'[i].opportunity_type = opportunity_type}

OpportunityTypes ==
    {"PRICE_DIP", "ORDER_WIN", "DIVIDEND", "EXPANSION", "SPLIT", "BONUS"}

\* C27: a single run of generate_all_entry_signals saves at most one new
\* EntryOpportunity per (stock, opportunity_type) pair
C27_OnePerStockAndType ==
    [][signal_run'.status = "returned" =>
          \A s \in DOMAIN stock_price, opportunity_type \in OpportunityTypes :
              Cardinality(NewRows(s, opportunity_type)) <= 1]_vars

Running(p) == daily_run[p].pc # "idle"

\* C23: at most one active Recommendation per stock, in every state that
\* two interleaved executions of generate_daily_recommendations reach
C23_OneActiveWhenInterleaved ==
    \A i, j \in 1..Len(recommendation) :
        (/\ recommendation[i].stock = recommendation[j].stock
         /\ recommendation[i].is_active
         /\ recommendation[j].is_active) => i = j

StillActive(stock) ==
    \E i \in 1..Len(recommendation') :
        recommendation'[i].stock = stock /\ recommendation'[i].is_active

\* C28: a run of generate_daily_recommendations never leaves a stock without
\* an active recommendation that had one before the run
C28_ActiveStaysActive ==
    [][\A stock \in RecommendedStocks :
          ActiveRecommendations(stock) # {} => StillActive(stock)]_vars

\* the rows a run of generate_daily_recommendations created
CreatedRows == (Len(recommendation) + 1)..Len(recommendation')

\* the articles of today that are analyzed and mention the stock
AnalyzedAbout(stock) ==
    {id \in 1..Len(news_article) :
        /\ news_article[id].published_at = today
        /\ news_article[id].is_analyzed
        /\ stock \in news_article[id].mentioned_stocks}

\* the row carries what the engine makes of these articles, in some order
DerivedFrom(row, ids) ==
    \E order \in Orders(ids) :
        LET r == AnalyzeStockSentiment(row.stock,
                     [i \in 1..Len(order) |->
                         ArticleInfo(order[i], news_article[order[i]])])
        IN /\ r.kind = "rec"
           /\ r.recommendation = row.recommendation
           /\ r.risk_level = row.risk_level
           /\ r.confidence_level = row.confidence_level
           /\ r.reasoning = row.reasoning
           /\ r.key_factors = row.key_factors

ImportStarted == import_thread.pc # "idle"
ImportEnded == import_thread.pc = "done"

Terminal ==
    /\ import_task.status \in {"COMPLETED", "FAILED"}
    /\ import_task.progress = 100

\* the extraction failed or found nothing, or the import raised
ErrorReported ==
    \/ ~import_thread.success
    \/ import_thread.holdings_data = <<>>
    \/ import_thread.raised

\* C30: every execution of process_image_import_background ends with its
\* tracker in a terminal status at progress 100, FAILED exactly when the
\* extraction or the import reported an error and COMPLETED otherwise (the
\* error of a single holding is counted in the result and does not fail the
\* import), and no write follows the terminal one
C30_ImportEndsTerminal ==
    /\ ImportStarted ~> (ImportEnded /\ Terminal)
    /\ [](ImportEnded =>
             /\ Terminal
             /\ (import_task.status = "FAILED") <=> ErrorReported)
    /\ [][Terminal => import_task' = import_task]_vars

\* an import that failed on the prices after it had imported a holding
C30_Witness ==
    /\ ImportEnded
    /\ import_task.status = "FAILED"
    /\ import_thread.success_count > 0
    /\ import_thread.raised

====
